---- MODULE Spec2Model ----
(***************************************************************************)
(* k8s-http-monitor: the Monitor (pkg/monitoring/monitor.go) and the       *)
(* discovery client it drives.  One periodic loop task, one check task per *)
(* discovered endpoint per cycle, one asynchronously polled metrics        *)
(* callback; the endpoints map and the endpointStatus map are shared and   *)
(* guarded by the Monitor mutex mu.                                        *)
(***************************************************************************)
EXTENDS Integers, Sequences, FiniteSets, TLC

VARIABLES
    checkInterval,      \* Monitor.checkInterval, in seconds
    timeout,            \* Monitor.timeout, in seconds
    successStatusCodes, \* Monitor.successStatusCodes
    endpoints,          \* Monitor.endpoints: key -> Endpoint
    endpointStatus,     \* Monitor.endpointStatus: key -> BOOLEAN
    mu,                 \* Monitor.mu: Free, CallbackTask or the index of a check
    started,            \* Start has been called
    cbRegistered,       \* RegisterCallback succeeded
    cbPc,               \* position of the metrics callback
    samples,            \* what the running callback has observed on o
    ctxDone,            \* the root context is cancelled
    loopPc,             \* position of the periodic loop goroutine
    tickerActive,       \* ticker created and not stopped
    tickReady,          \* a tick is buffered in ticker.C
    checks,             \* every check goroutine launched so far, in launch order
    cycles,             \* calls of checkEndpoints so far
    ticksConsumed,      \* receives from ticker.C so far
    discoveryErr,       \* checkEndpoints: err of the last DiscoverIngressEndpoints call
    discovered,         \* checkEndpoints: eps of the last DiscoverIngressEndpoints call
    call,               \* the last direct call of a pure function
    ret,                \* and what it returned
    client              \* the discovery Client: namespaceMode and namespaces

vars == <<checkInterval, timeout, successStatusCodes, endpoints, endpointStatus, mu,
          started, cbRegistered, cbPc, samples, ctxDone, loopPc, tickerActive,
          tickReady, checks, cycles, ticksConsumed, discoveryErr, discovered, call, ret,
          client>>

\* what a step of the loop, of a check or of the callback leaves alone
configVars == <<checkInterval, timeout, successStatusCodes, call, ret, client>>
startVars == <<started, cbRegistered>>
loopVars == <<loopPc, tickerActive, tickReady, cycles, ticksConsumed, discoveryErr,
             discovered>>
callbackVars == <<cbPc, samples>>

----------------------------------------------------------------------------
(* Bounds *)

MaxChecks == 2      \* check goroutines launched in one run
MaxCycles == 2      \* calls of checkEndpoints in one run
MaxCodes == 2       \* length of a configured extra-success list (direct calls)
MaxNamespaces == 2  \* length of a configured namespace list (direct calls)
MaxRules == 2       \* host rules of one ingress (direct calls)
MaxPaths == 2       \* path rules of one ingress, over all its rules (direct calls)
MaxIngresses == 2   \* ingresses in the cluster when it is listed (direct calls)
MaxOptions == 2     \* options passed to NewMonitor

----------------------------------------------------------------------------
(* Values *)

Free == 0
CallbackTask == -1

EmptyMap == [k \in {} |-> ""]

NoCall == [fn |-> "none"]
NoRet == [fn |-> "none"]

\* the Endpoint struct
Endpoint(ns, svc, ing, url, path, labels, annotations) ==
    [Namespace |-> ns, ServiceName |-> svc, IngressName |-> ing, URL |-> url,
     Path |-> path, Labels |-> labels, Annotations |-> annotations]

\* Endpoints extracted from three ingresses: ing1 routes two services behind one
\* host and health path (one composite key), ing2 is a second host under TLS, ing3
\* carries a health.monitor/endpoint annotation that is no valid URL path.
epSvc == Endpoint("default", "svc", "ing1", "http://a.com", "/", [app |-> "web"], EmptyMap)
epSvc2 == Endpoint("default", "svc2", "ing1", "http://a.com", "/", [app |-> "web"], EmptyMap)
epApi == Endpoint("default", "api", "ing2", "https://b.com", "/health", EmptyMap,
                  [x \in {"health.monitor/endpoint"} |-> "/health"])
epBad == Endpoint("prod", "bad", "ing3", "http://c.com", "/%zz", EmptyMap,
                  [x \in {"health.monitor/endpoint"} |-> "/%zz"])

\* What one discovery call can return, by the ingresses present when it lists them
DiscoveryResults ==
    { <<>>, <<epSvc>>, <<epSvc, epSvc2>>, <<epSvc, epSvc>>, <<epSvc, epApi>>,
      <<epBad>>, <<epApi, epBad>> }

\* URLs net/url cannot parse (an invalid percent escape)
UnparsableURLs == {"http://c.com/%zz"}

\* Status codes the checked servers answer with
ResponseCodes == {200, 404, 500}

DefaultSuccessStatusCodes == <<401, 403, 404>>

\* checkInterval: 30 * time.Second and timeout: 10 * time.Second of NewMonitor
DefaultCheckInterval == 30
DefaultTimeout == 10

----------------------------------------------------------------------------
(* Pure helpers *)

endpointKeyWithService(endpoint) ==
    endpoint.Namespace \o "/" \o endpoint.ServiceName \o "/" \o endpoint.IngressName
        \o "/" \o endpoint.URL \o endpoint.Path

\* endpointKey: fmt.Sprintf("%s/%s/%s%s", Namespace, IngressName, URL, Path)
endpointKey(endpoint) ==
    endpoint.Namespace \o "/" \o endpoint.IngressName \o "/" \o endpoint.URL
        \o endpoint.Path

\* fullURL := endpoint.URL + endpoint.Path
fullURL(endpoint) == endpoint.URL \o endpoint.Path

Digits == <<"0", "1", "2", "3", "4", "5", "6", "7", "8", "9">>

\* strconv.Itoa
RECURSIVE Itoa(_)
Itoa(n) ==
    IF n < 0 THEN "-" \o Itoa(0 - n)
    ELSE IF n < 10 THEN Digits[n + 1]
    ELSE Itoa(n \div 10) \o Digits[(n % 10) + 1]

\* strconv.FormatBool
FormatBool(b) == IF b THEN "true" ELSE "false"

\* the for loop of checkStatus over codes[i..]: success once a code matches
RECURSIVE scanCodes(_, _, _, _)
scanCodes(codes, i, statusCode, success) ==
    IF i > Len(codes) THEN success
    ELSE IF statusCode = codes[i] THEN TRUE
    ELSE scanCodes(codes, i + 1, statusCode, success)

checkStatusAbove200(codes, statusCode) ==
    scanCodes(codes, 1, statusCode, statusCode > 200 /\ statusCode < 300)

\* Monitor.checkStatus, with m.successStatusCodes passed as codes
checkStatus(codes, statusCode) ==
    scanCodes(codes, 1, statusCode, statusCode >= 200 /\ statusCode < 300)

\* attrs: the four common attributes and one per label (as the attribute set
\* metric.WithAttributes builds from the slice)
commonAttrs(endpoint) ==
    { <<"namespace", endpoint.Namespace>>, <<"service", endpoint.ServiceName>>,
      <<"ingress", endpoint.IngressName>>, <<"url", fullURL(endpoint)>> }
    \cup { <<k, endpoint.Labels[k]>> : k \in DOMAIN endpoint.Labels }

\* statusAttrs of the error branch
errorStatusAttrs(endpoint) ==
    commonAttrs(endpoint) \cup { <<"status", "">>, <<"success", "false">> }

responseStatusAttrsSuccessTrue(endpoint, statusCode, isUp) ==
    commonAttrs(endpoint)
        \cup { <<"status", Itoa(statusCode)>>, <<"success", "true">> }

\* statusAttrs of the response branch
responseStatusAttrs(endpoint, statusCode, isUp) ==
    commonAttrs(endpoint)
        \cup { <<"status", Itoa(statusCode)>>, <<"success", FormatBool(isUp)>> }

\* http.NewRequestWithContext(ctx, "GET", fullURL, nil) returns no error
requestBuilds(endpoint) == fullURL(endpoint) \notin UnparsableURLs

\* map[key] = value
MapSet(map, key, value) ==
    [k \in (DOMAIN map) \cup {key} |-> IF k = key THEN value ELSE map[k]]

\* sequences over S of length 0..n
SeqsUpTo(S, n) == UNION { [1..k -> S] : k \in 0..n }

\* a check goroutine that `go m.checkEndpoint(ctx, endpoint)` has just created
NewCheck(endpoint, cycle) ==
    [ep |-> endpoint, cycle |-> cycle, pc |-> "lockEndpoints", err |-> "none",
     code |-> 0, isUp |-> FALSE, requests |-> 0, statusWrites |-> <<>>,
     counterObs |-> <<>>, histogramObs |-> <<>>]

CheckIds == 1..Len(checks)

----------------------------------------------------------------------------
(* Construction and Start *)

\* NewMonitor: empty maps, unlocked mutex, nothing started
InitMonitor ==
    /\ endpoints = EmptyMap
    /\ endpointStatus = [k \in {} |-> FALSE]
    /\ mu = Free
    /\ started = FALSE
    /\ cbRegistered = FALSE
    /\ cbPc = "idle"
    /\ samples = {}
    /\ ctxDone = FALSE
    /\ loopPc = "notStarted"
    /\ tickerActive = FALSE
    /\ tickReady = FALSE
    /\ checks = <<>>
    /\ cycles = 0
    /\ ticksConsumed = 0
    /\ discoveryErr = FALSE
    /\ discovered = <<>>

\* NewClient: &Client{namespaceMode: "allow", namespaces: []string{}}
NewClient == [namespaceMode |-> "allow", namespaces |-> <<>>]

Init ==
    /\ checkInterval = DefaultCheckInterval
    /\ timeout = DefaultTimeout
    /\ successStatusCodes = DefaultSuccessStatusCodes
    /\ InitMonitor
    /\ call = NoCall
    /\ ret = NoRet
    /\ client = NewClient

\* Monitor.Start: RegisterCallback (which may fail, and is then only logged), then
\* `go func() {...}` for the periodic loop
Start ==
    /\ ~started
    /\ started' = TRUE
    /\ \E ok \in BOOLEAN : cbRegistered' = ok
    /\ loopPc' = "begin"
    /\ UNCHANGED <<endpoints, endpointStatus, mu, ctxDone, checks, tickerActive,
                   tickReady, cycles, ticksConsumed, discoveryErr,
                   discovered>>
    /\ UNCHANGED <<configVars, callbackVars>>

\* signal.NotifyContext: SIGINT or SIGTERM cancels the root context
Cancel ==
    /\ ~ctxDone
    /\ ctxDone' = TRUE
    /\ UNCHANGED <<endpoints, endpointStatus, mu, checks>>
    /\ UNCHANGED <<configVars, startVars, loopVars, callbackVars>>

----------------------------------------------------------------------------
(* The periodic loop goroutine *)

\* entering checkEndpoints: DiscoverIngressEndpoints(ctx) is called; a List issued
\* on an already cancelled context can only fail
discoveryPc == IF ctxDone THEN "discoveringCancelled" ELSE "discovering"

LoopBeginNoInitialCheck ==
    /\ loopPc = "begin"
    /\ tickerActive' = TRUE
    /\ loopPc' = "select"
    /\ UNCHANGED <<endpoints, endpointStatus, mu, ctxDone, checks, tickReady, cycles,
                   ticksConsumed, discoveryErr,
                   discovered>>
    /\ UNCHANGED <<configVars, startVars, callbackVars>>

\* time.NewTicker, then the initial m.checkEndpoints(ctx)
LoopBegin ==
    /\ loopPc = "begin"
    /\ tickerActive' = TRUE
    /\ cycles' = cycles + 1
    /\ loopPc' = discoveryPc
    /\ UNCHANGED <<endpoints, endpointStatus, mu, ctxDone, checks, tickReady,
                   ticksConsumed, discoveryErr,
                   discovered>>
    /\ UNCHANGED <<configVars, startVars, callbackVars>>

\* the runtime timer delivers a tick into ticker.C (capacity 1; a tick that finds
\* the channel full is dropped)
TickerFire ==
    /\ tickerActive
    /\ ~tickReady
    /\ tickReady' = TRUE
    /\ UNCHANGED <<endpoints, endpointStatus, mu, ctxDone, checks, loopPc,
                   tickerActive, cycles, ticksConsumed, discoveryErr,
                   discovered>>
    /\ UNCHANGED <<configVars, startVars, callbackVars>>

SelectDoneBreaksSelect ==
    /\ loopPc = "select"
    /\ ctxDone
    /\ loopPc' = "select"
    /\ tickerActive' = tickerActive
    /\ UNCHANGED <<endpoints, endpointStatus, mu, ctxDone, checks, tickReady, cycles,
                   ticksConsumed, discoveryErr,
                   discovered>>
    /\ UNCHANGED <<configVars, startVars, callbackVars>>

\* select, case <-ctx.Done(): return (the deferred ticker.Stop runs)
SelectDone ==
    /\ loopPc = "select"
    /\ ctxDone
    /\ loopPc' = "returned"
    /\ tickerActive' = FALSE
    /\ UNCHANGED <<endpoints, endpointStatus, mu, ctxDone, checks, tickReady, cycles,
                   ticksConsumed, discoveryErr,
                   discovered>>
    /\ UNCHANGED <<configVars, startVars, callbackVars>>

SelectTickAfterChecks ==
    /\ loopPc = "select"
    /\ tickReady
    /\ cycles < MaxCycles
    /\ \A t \in CheckIds : checks[t].pc = "returned"
    /\ tickReady' = FALSE
    /\ ticksConsumed' = ticksConsumed + 1
    /\ cycles' = cycles + 1
    /\ loopPc' = discoveryPc
    /\ UNCHANGED <<endpoints, endpointStatus, mu, ctxDone, checks, tickerActive,
                   discoveryErr, discovered>>
    /\ UNCHANGED <<configVars, startVars, callbackVars>>

SelectTickConcurrently ==
    /\ loopPc \in {"select", "discovering"}
    /\ tickReady
    /\ cycles < MaxCycles
    /\ tickReady' = FALSE
    /\ ticksConsumed' = ticksConsumed + 1
    /\ cycles' = cycles + 1
    /\ loopPc' = discoveryPc
    /\ UNCHANGED <<endpoints, endpointStatus, mu, ctxDone, checks, tickerActive,
                   discoveryErr, discovered>>
    /\ UNCHANGED <<configVars, startVars, callbackVars>>

\* select, case <-ticker.C: m.checkEndpoints(ctx).  With both cases ready the
\* runtime picks either.
SelectTick ==
    /\ loopPc = "select"
    /\ tickReady
    /\ cycles < MaxCycles
    /\ tickReady' = FALSE
    /\ ticksConsumed' = ticksConsumed + 1
    /\ cycles' = cycles + 1
    /\ loopPc' = discoveryPc
    /\ UNCHANGED <<endpoints, endpointStatus, mu, ctxDone, checks, tickerActive,
                   discoveryErr,
                   discovered>>
    /\ UNCHANGED <<configVars, startVars, callbackVars>>

DiscoverFailsFatal ==
    /\ loopPc \in {"discovering", "discoveringCancelled"}
    /\ discoveryErr' = TRUE
    /\ discovered' = <<>>
    /\ loopPc' = "returned"
    /\ tickerActive' = FALSE
    /\ UNCHANGED <<endpoints, endpointStatus, mu, ctxDone, checks, tickReady, cycles,
                   ticksConsumed>>
    /\ UNCHANGED <<configVars, startVars, callbackVars>>

DiscoverFailsForgets ==
    /\ loopPc \in {"discovering", "discoveringCancelled"}
    /\ discoveryErr' = TRUE
    /\ discovered' = <<>>
    /\ loopPc' = "select"
    /\ endpoints' = EmptyMap
    /\ endpointStatus' = [k \in {} |-> FALSE]
    /\ UNCHANGED <<mu, ctxDone, checks, tickerActive, tickReady, cycles,
                   ticksConsumed>>
    /\ UNCHANGED <<configVars, startVars, callbackVars>>

\* checkEndpoints: DiscoverIngressEndpoints returns (nil, err); log and return
DiscoverFails ==
    /\ loopPc \in {"discovering", "discoveringCancelled"}
    /\ discoveryErr' = TRUE
    /\ discovered' = <<>>
    /\ loopPc' = "select"
    /\ UNCHANGED <<endpoints, endpointStatus, mu, ctxDone, checks, tickerActive,
                   tickReady, cycles, ticksConsumed>>
    /\ UNCHANGED <<configVars, startVars, callbackVars>>

RECURSIVE launchedDeduplicated(_, _, _)
launchedDeduplicated(running, eps, c) ==
    IF eps = <<>> THEN running
    ELSE IF \E t \in 1..Len(running) :
               running[t].cycle = c /\ running[t].ep = Head(eps)
      THEN launchedDeduplicated(running, Tail(eps), c)
      ELSE launchedDeduplicated(Append(running, NewCheck(Head(eps), c)), Tail(eps), c)

\* the goroutines `for _, endpoint := range eps { go m.checkEndpoint(ctx, endpoint) }`
\* creates in cycle c, appended in range order
RECURSIVE launched(_, _, _)
launched(running, eps, c) ==
    IF eps = <<>> THEN running
    ELSE launched(Append(running, NewCheck(Head(eps), c)), Tail(eps), c)

DiscoverReturnsEvicts ==
    /\ loopPc = "discovering"
    /\ discoveryErr' = FALSE
    /\ \E eps \in DiscoveryResults :
          /\ Len(checks) + Len(eps) <= MaxChecks
          /\ checks' = launched(checks, eps, cycles)
          /\ discovered' = eps
          /\ LET kept == { endpointKey(eps[i]) : i \in 1..Len(eps) }
             IN /\ endpoints' = [k \in (DOMAIN endpoints) \cap kept |-> endpoints[k]]
                /\ endpointStatus' =
                      [k \in (DOMAIN endpointStatus) \cap kept |-> endpointStatus[k]]
    /\ loopPc' = "select"
    /\ UNCHANGED <<mu, ctxDone, tickerActive, tickReady, cycles, ticksConsumed>>
    /\ UNCHANGED <<configVars, startVars, callbackVars>>

\* checkEndpoints: DiscoverIngressEndpoints returns (eps, nil); one goroutine is
\* launched per element and checkEndpoints returns without waiting for any
DiscoverReturns ==
    /\ loopPc = "discovering"
    /\ discoveryErr' = FALSE
    /\ \E eps \in DiscoveryResults :
          /\ Len(checks) + Len(eps) <= MaxChecks
          /\ checks' = launched(checks, eps, cycles)
          /\ discovered' = eps
    /\ loopPc' = "select"
    /\ UNCHANGED <<endpoints, endpointStatus, mu, ctxDone, tickerActive, tickReady,
                   cycles, ticksConsumed>>
    /\ UNCHANGED <<configVars, startVars, callbackVars>>

----------------------------------------------------------------------------
(* One check goroutine: Monitor.checkEndpoint *)

\* the check goroutine t becomes rec
Step(t, rec) == checks' = [checks EXCEPT ![t] = rec]

LockEndpointsNoWait(t) ==
    /\ checks[t].pc = "lockEndpoints"
    /\ mu' = t
    /\ Step(t, [checks[t] EXCEPT !.pc = "storeEndpoint"])
    /\ UNCHANGED <<endpoints, endpointStatus, ctxDone>>
    /\ UNCHANGED <<configVars, startVars, loopVars, callbackVars>>

\* m.mu.Lock() before the endpoints write
LockEndpoints(t) ==
    /\ checks[t].pc = "lockEndpoints"
    /\ mu = Free
    /\ mu' = t
    /\ Step(t, [checks[t] EXCEPT !.pc = "storeEndpoint"])
    /\ UNCHANGED <<endpoints, endpointStatus, ctxDone>>
    /\ UNCHANGED <<configVars, startVars, loopVars, callbackVars>>

StoreEndpointSkipped(t) ==
    /\ checks[t].pc = "storeEndpoint"
    /\ mu' = Free
    /\ Step(t, [checks[t] EXCEPT !.pc = "request"])
    /\ UNCHANGED <<endpoints, endpointStatus, ctxDone>>
    /\ UNCHANGED <<configVars, startVars, loopVars, callbackVars>>

StoreEndpointReplacesMap(t) ==
    /\ checks[t].pc = "storeEndpoint"
    /\ endpoints' = [k \in {endpointKey(checks[t].ep)} |-> checks[t].ep]
    /\ mu' = Free
    /\ Step(t, [checks[t] EXCEPT !.pc = "request"])
    /\ UNCHANGED <<endpointStatus, ctxDone>>
    /\ UNCHANGED <<configVars, startVars, loopVars, callbackVars>>

StoreEndpointFirstWins(t) ==
    /\ checks[t].pc = "storeEndpoint"
    /\ endpoints' =
          IF endpointKey(checks[t].ep) \in DOMAIN endpoints THEN endpoints
          ELSE MapSet(endpoints, endpointKey(checks[t].ep), checks[t].ep)
    /\ mu' = Free
    /\ Step(t, [checks[t] EXCEPT !.pc = "request"])
    /\ UNCHANGED <<endpointStatus, ctxDone>>
    /\ UNCHANGED <<configVars, startVars, loopVars, callbackVars>>

\* m.endpoints[key] = endpoint; m.mu.Unlock()
StoreEndpoint(t) ==
    /\ checks[t].pc = "storeEndpoint"
    /\ endpoints' = MapSet(endpoints, endpointKey(checks[t].ep), checks[t].ep)
    /\ mu' = Free
    /\ Step(t, [checks[t] EXCEPT !.pc = "request"])
    /\ UNCHANGED <<endpointStatus, ctxDone>>
    /\ UNCHANGED <<configVars, startVars, loopVars, callbackVars>>

SendRequestBuildErrorIsDown(t) ==
    /\ checks[t].pc = "request"
    /\ IF ~requestBuilds(checks[t].ep)
         THEN Step(t, [checks[t] EXCEPT !.pc = "lockStatus", !.err = "build"])
         ELSE IF ctxDone
           THEN Step(t, [checks[t] EXCEPT !.pc = "lockStatus", !.err = "canceled",
                                          !.requests = @ + 1])
           ELSE Step(t, [checks[t] EXCEPT !.pc = "inFlight", !.requests = @ + 1])
    /\ UNCHANGED <<endpoints, endpointStatus, mu, ctxDone>>
    /\ UNCHANGED <<configVars, startVars, loopVars, callbackVars>>

\* http.NewRequestWithContext: on error, log and return.  Otherwise
\* m.httpClient.Do(req) is entered: a request whose context is already cancelled
\* fails at once, any other is sent.
SendRequest(t) ==
    /\ checks[t].pc = "request"
    /\ IF ~requestBuilds(checks[t].ep)
         THEN Step(t, [checks[t] EXCEPT !.pc = "returned", !.err = "build"])
         ELSE IF ctxDone
           THEN Step(t, [checks[t] EXCEPT !.pc = "lockStatus", !.err = "canceled",
                                          !.requests = @ + 1])
           ELSE Step(t, [checks[t] EXCEPT !.pc = "inFlight", !.requests = @ + 1])
    /\ UNCHANGED <<endpoints, endpointStatus, mu, ctxDone>>
    /\ UNCHANGED <<configVars, startVars, loopVars, callbackVars>>

\* m.httpClient.Do(req) returns an error: the endpoint is unreachable, the client
\* timeout expired, or the context was cancelled while the request was in flight
DoFails(t) ==
    /\ checks[t].pc = "inFlight"
    /\ \E e \in {"transport"} \cup (IF ctxDone THEN {"canceled"} ELSE {}) :
          Step(t, [checks[t] EXCEPT !.pc = "lockStatus", !.err = e])
    /\ UNCHANGED <<endpoints, endpointStatus, mu, ctxDone>>
    /\ UNCHANGED <<configVars, startVars, loopVars, callbackVars>>

\* m.httpClient.Do(req) returns a response; isUp := m.checkStatus(resp.StatusCode)
DoResponds(t) ==
    /\ checks[t].pc = "inFlight"
    /\ \E c \in ResponseCodes :
          Step(t, [checks[t] EXCEPT !.pc = "lockStatus", !.code = c,
                                    !.isUp = checkStatus(successStatusCodes, c)])
    /\ UNCHANGED <<endpoints, endpointStatus, mu, ctxDone>>
    /\ UNCHANGED <<configVars, startVars, loopVars, callbackVars>>

\* m.mu.Lock() before the endpointStatus write (either branch)
LockStatus(t) ==
    /\ checks[t].pc = "lockStatus"
    /\ mu = Free
    /\ mu' = t
    /\ Step(t, [checks[t] EXCEPT !.pc = "storeStatus"])
    /\ UNCHANGED <<endpoints, endpointStatus, ctxDone>>
    /\ UNCHANGED <<configVars, startVars, loopVars, callbackVars>>

statusToStoreErrorUp(check) == IF check.err # "none" THEN TRUE ELSE check.isUp

\* the value a check writes: false in the error branch, isUp in the response branch
statusToStore(check) == IF check.err # "none" THEN FALSE ELSE check.isUp

StoreStatusReplacesMap(t) ==
    /\ checks[t].pc = "storeStatus"
    /\ endpointStatus' = [k \in {endpointKey(checks[t].ep)} |->
                             statusToStore(checks[t])]
    /\ mu' = Free
    /\ Step(t, [checks[t] EXCEPT !.pc = "record",
                                 !.statusWrites = Append(@, statusToStore(checks[t]))])
    /\ UNCHANGED <<endpoints, ctxDone>>
    /\ UNCHANGED <<configVars, startVars, loopVars, callbackVars>>

StoreStatusFirstWins(t) ==
    /\ checks[t].pc = "storeStatus"
    /\ endpointStatus' =
          IF endpointKey(checks[t].ep) \in DOMAIN endpointStatus THEN endpointStatus
          ELSE MapSet(endpointStatus, endpointKey(checks[t].ep),
                      statusToStore(checks[t]))
    /\ mu' = Free
    /\ Step(t, [checks[t] EXCEPT !.pc = "record",
                                 !.statusWrites = Append(@, statusToStore(checks[t]))])
    /\ UNCHANGED <<endpoints, ctxDone>>
    /\ UNCHANGED <<configVars, startVars, loopVars, callbackVars>>

StoreStatusKeepsLock(t) ==
    /\ checks[t].pc = "storeStatus"
    /\ endpointStatus' = MapSet(endpointStatus, endpointKey(checks[t].ep),
                                statusToStore(checks[t]))
    /\ mu' = mu
    /\ Step(t, [checks[t] EXCEPT !.pc = "record",
                                 !.statusWrites = Append(@, statusToStore(checks[t]))])
    /\ UNCHANGED <<endpoints, ctxDone>>
    /\ UNCHANGED <<configVars, startVars, loopVars, callbackVars>>

\* m.endpointStatus[key] = false / isUp; m.mu.Unlock()
StoreStatus(t) ==
    /\ checks[t].pc = "storeStatus"
    /\ endpointStatus' = MapSet(endpointStatus, endpointKey(checks[t].ep),
                                statusToStore(checks[t]))
    /\ mu' = Free
    /\ Step(t, [checks[t] EXCEPT !.pc = "record",
                                 !.statusWrites = Append(@, statusToStore(checks[t]))])
    /\ UNCHANGED <<endpoints, ctxDone>>
    /\ UNCHANGED <<configVars, startVars, loopVars, callbackVars>>

\* the statusAttrs of the branch the check is in
statusAttrs(check) ==
    IF check.err # "none"
      THEN errorStatusAttrs(check.ep)
      ELSE responseStatusAttrs(check.ep, check.code, check.isUp)

RecordMetricsCountsTwice(t) ==
    /\ checks[t].pc = "record"
    /\ Step(t, [checks[t] EXCEPT
                  !.pc = "returned",
                  !.counterObs = @ \o <<statusAttrs(checks[t]), statusAttrs(checks[t])>>,
                  !.histogramObs = Append(@, statusAttrs(checks[t]))])
    /\ UNCHANGED <<endpoints, endpointStatus, mu, ctxDone>>
    /\ UNCHANGED <<configVars, startVars, loopVars, callbackVars>>

\* GetRequestCounter().Add(ctx, 1, attrs); GetResponseTimeHistogram().Record(ctx,
\* duration, attrs); return
RecordMetrics(t) ==
    /\ checks[t].pc = "record"
    /\ Step(t, [checks[t] EXCEPT !.pc = "returned",
                                 !.counterObs = Append(@, statusAttrs(checks[t])),
                                 !.histogramObs = Append(@, statusAttrs(checks[t]))])
    /\ UNCHANGED <<endpoints, endpointStatus, mu, ctxDone>>
    /\ UNCHANGED <<configVars, startVars, loopVars, callbackVars>>

----------------------------------------------------------------------------
(* The upGauge callback registered by Start *)

gaugeSampleAlwaysUp(endpoint, isUp) ==
    [attrs |-> commonAttrs(endpoint), value |-> 1]

\* the sample of one endpoint: value 1 if up, 0 if down, with its attributes
gaugeSample(endpoint, isUp) ==
    [attrs |-> commonAttrs(endpoint), value |-> IF isUp THEN 1 ELSE 0]

CallbackObserveAll ==
    /\ cbRegistered
    /\ cbPc = "idle"
    /\ mu = Free
    /\ mu' = CallbackTask
    /\ samples' = { gaugeSample(endpoints[k],
                                k \in DOMAIN endpointStatus /\ endpointStatus[k]) :
                      k \in DOMAIN endpoints }
    /\ cbPc' = "observed"
    /\ UNCHANGED <<endpoints, endpointStatus, ctxDone, checks>>
    /\ UNCHANGED <<configVars, startVars, loopVars>>

\* The reader invokes the callback: m.mu.Lock(), then
\* `for key, endpoint := range m.endpoints`: keys without a status are skipped, the
\* others observed.  The maps cannot change while the callback holds the mutex.
CallbackObserve ==
    /\ cbRegistered
    /\ cbPc = "idle"
    /\ mu = Free
    /\ mu' = CallbackTask
    /\ samples' = { gaugeSample(endpoints[k], endpointStatus[k]) :
                      k \in (DOMAIN endpoints) \cap (DOMAIN endpointStatus) }
    /\ cbPc' = "observed"
    /\ UNCHANGED <<endpoints, endpointStatus, ctxDone, checks>>
    /\ UNCHANGED <<configVars, startVars, loopVars>>

\* return nil; the deferred m.mu.Unlock() runs.  The next invocation gets a fresh
\* observer.
CallbackReturn ==
    /\ cbPc = "observed"
    /\ mu' = Free
    /\ cbPc' = "idle"
    /\ samples' = {}
    /\ UNCHANGED <<endpoints, endpointStatus, ctxDone, checks>>
    /\ UNCHANGED <<configVars, startVars, loopVars>>

----------------------------------------------------------------------------
(* The running program *)

Next ==
    \/ Start
    \/ Cancel
    \/ LoopBegin
    \/ TickerFire
    \/ SelectDone
    \/ SelectTick
    \/ DiscoverFails
    \/ DiscoverReturns
    \/ \E t \in CheckIds : LockEndpoints(t)
    \/ \E t \in CheckIds : StoreEndpoint(t)
    \/ \E t \in CheckIds : SendRequest(t)
    \/ \E t \in CheckIds : DoFails(t)
    \/ \E t \in CheckIds : DoResponds(t)
    \/ \E t \in CheckIds : LockStatus(t)
    \/ \E t \in CheckIds : StoreStatus(t)
    \/ \E t \in CheckIds : RecordMetrics(t)
    \/ CallbackObserve
    \/ CallbackReturn

Spec == Init /\ [][Next]_vars

\* What the scheduling guarantees.  Every goroutine that can take a step is
\* eventually run (weak fairness of each local step); an HTTP request ends, at the
\* latest when the client timeout expires; the callback returns and so releases the
\* mutex; and a mutex that is free again and again is eventually acquired by one of
\* the goroutines waiting in Lock (sync.Mutex hands it to a starving waiter), which
\* is strong fairness of the Lock steps.
CheckFairness(t) ==
    /\ WF_vars(t \in CheckIds /\ StoreEndpoint(t))
    /\ WF_vars(t \in CheckIds /\ SendRequest(t))
    /\ WF_vars(t \in CheckIds /\ (DoFails(t) \/ DoResponds(t)))
    /\ WF_vars(t \in CheckIds /\ StoreStatus(t))
    /\ WF_vars(t \in CheckIds /\ RecordMetrics(t))

Fairness ==
    /\ \A t \in 1..MaxChecks : CheckFairness(t)
    /\ SF_vars(\E t \in CheckIds : LockEndpoints(t) \/ LockStatus(t))
    /\ WF_vars(CallbackReturn)

FairSpec == Spec /\ Fairness

\* The same guarantees without the one on HTTP requests: an endpoint may keep its
\* request hanging for as long as it likes.
HangingRequestFairness ==
    /\ \A t \in 1..MaxChecks :
          /\ WF_vars(t \in CheckIds /\ StoreEndpoint(t))
          /\ WF_vars(t \in CheckIds /\ SendRequest(t))
          /\ WF_vars(t \in CheckIds /\ StoreStatus(t))
          /\ WF_vars(t \in CheckIds /\ RecordMetrics(t))
    /\ SF_vars(\E t \in CheckIds : LockEndpoints(t) \/ LockStatus(t))
    /\ WF_vars(CallbackReturn)

FairSpecHangingRequests == Spec /\ HangingRequestFairness

\* What the scheduling guarantees of the loop goroutine.  It is eventually run; a
\* discovery call returns (with the endpoints or with an error); the timer keeps
\* delivering ticks; a tick that stays ready is eventually received; and a select
\* that finds ctx.Done() ready again and again eventually takes that case (the
\* runtime picks among the ready cases at random), which is strong fairness.
LoopFairness ==
    /\ WF_vars(LoopBegin)
    /\ WF_vars(DiscoverFails \/ DiscoverReturns)
    /\ WF_vars(TickerFire)
    /\ WF_vars(SelectTick)
    /\ SF_vars(SelectDone)

FairLoopSpec == Spec /\ LoopFairness

----------------------------------------------------------------------------
(* NewMonitor with options, then the running program *)

\* the Option closures: each holds the value it was made with
WithCheckInterval(interval) == [option |-> "WithCheckInterval", value |-> interval]
WithTimeout(d) == [option |-> "WithTimeout", value |-> d]
WithSuccessStatusCodes(codes) == [option |-> "WithSuccessStatusCodes", value |-> codes]

applyOptionTimeoutSetsInterval(m, o) ==
    IF o.option = "WithCheckInterval" THEN [m EXCEPT !.checkInterval = o.value]
    ELSE IF o.option = "WithTimeout"
      THEN [m EXCEPT !.timeout = o.value, !.checkInterval = o.value]
    ELSE [m EXCEPT !.successStatusCodes = o.value]

\* option(m): the closure assigns its value to its field of m
applyOption(m, o) ==
    IF o.option = "WithCheckInterval" THEN [m EXCEPT !.checkInterval = o.value]
    ELSE IF o.option = "WithTimeout" THEN [m EXCEPT !.timeout = o.value]
    ELSE [m EXCEPT !.successStatusCodes = o.value]

\* for _, option := range options { option(m) }
RECURSIVE applyOptions(_, _)
applyOptions(m, options) ==
    IF options = <<>> THEN m
    ELSE applyOptions(applyOption(m, Head(options)), Tail(options))

\* NewMonitor: the configuration fields of the Monitor it returns
NewMonitor(options) ==
    applyOptions([checkInterval |-> 30, timeout |-> 10,
                  successStatusCodes |-> <<401, 403, 404>>], options)

\* the options of the tests: 60 seconds, 5 seconds, the codes 200 and 201
Options == <<WithCheckInterval(60), WithTimeout(5), WithSuccessStatusCodes(<<200, 201>>)>>

\* the option list that takes the options at the positions pick
OptionList(pick) == [i \in 1..Len(pick) |-> Options[pick[i]]]

\* the Monitor that NewMonitor(discoveryClient, metricsProvider, options...) returns
InitNewMonitor ==
    \E pick \in SeqsUpTo(1..Len(Options), MaxOptions) :
        /\ checkInterval = NewMonitor(OptionList(pick)).checkInterval
        /\ timeout = NewMonitor(OptionList(pick)).timeout
        /\ successStatusCodes = NewMonitor(OptionList(pick)).successStatusCodes
        /\ InitMonitor
        /\ call = [fn |-> "NewMonitor", options |-> OptionList(pick)]
        /\ ret = NoRet
        /\ client = NewClient

SpecNewMonitor == InitNewMonitor /\ [][Next]_vars

----------------------------------------------------------------------------
(* Direct calls of checkStatus, as TestCheckStatus makes them *)

\* codes a configured list is built from
ListCodes == {250, 401, 403, 404, 500}

\* status codes checkStatus is called with
StatusCodeInputs == {0 - 1, 0, 199, 200, 201, 250, 299, 300, 301, 401, 403, 404, 500}

\* a Monitor whose successStatusCodes is any short list
InitCheckStatus ==
    /\ checkInterval = DefaultCheckInterval
    /\ timeout = DefaultTimeout
    /\ successStatusCodes \in SeqsUpTo(ListCodes, MaxCodes) \cup {DefaultSuccessStatusCodes}
    /\ InitMonitor
    /\ call = NoCall
    /\ ret = NoRet
    /\ client = NewClient

\* monitor.checkStatus(statusCode)
CallCheckStatus ==
    /\ \E statusCode \in StatusCodeInputs :
          /\ call' = [fn |-> "checkStatus", statusCode |-> statusCode]
          /\ ret' = [fn |-> "checkStatus",
                     success |-> checkStatus(successStatusCodes, statusCode)]
    /\ UNCHANGED <<checkInterval, timeout, successStatusCodes, client, endpoints,
                   endpointStatus, mu, ctxDone, checks>>
    /\ UNCHANGED <<startVars, loopVars, callbackVars>>

SpecCheckStatus == InitCheckStatus /\ [][CallCheckStatus]_vars

----------------------------------------------------------------------------
(* The discovery client: the namespace filter, as TestShouldProcessNamespace *)
(* calls it                                                                  *)

\* values of namespaceMode: the two the filter knows, and one it does not (the
\* config file's namespaceMode is taken as it is)
NamespaceModes == {"allow", "deny", "block"}

NamespaceNames == {"default", "kube-system", "prod"}

\* the loop `for _, ns := range c.namespaces` over namespaces[i..]
RECURSIVE scanNamespaces(_, _, _)
scanNamespaces(namespaces, i, namespace) ==
    IF i > Len(namespaces) THEN FALSE
    ELSE IF namespaces[i] = namespace THEN TRUE
    ELSE scanNamespaces(namespaces, i + 1, namespace)

shouldProcessNamespaceEmptyAllows(c, namespace) ==
    IF Len(c.namespaces) = 0
      THEN TRUE
      ELSE LET found == scanNamespaces(c.namespaces, 1, namespace)
           IN (c.namespaceMode = "allow" /\ found) \/ (c.namespaceMode = "deny" /\ ~found)

\* Client.shouldProcessNamespace
shouldProcessNamespace(c, namespace) ==
    IF Len(c.namespaces) = 0
      THEN c.namespaceMode = "allow"
      ELSE LET found == scanNamespaces(c.namespaces, 1, namespace)
           IN (c.namespaceMode = "allow" /\ found) \/ (c.namespaceMode = "deny" /\ ~found)

\* what a direct call leaves alone: the whole Monitor
monitorVars == <<checkInterval, timeout, successStatusCodes, endpoints, endpointStatus,
                 mu, ctxDone, checks, startVars, loopVars, callbackVars>>

\* client.SetNamespaceFilter(mode, namespaces)
CallSetNamespaceFilter ==
    /\ \E mode \in NamespaceModes, namespaces \in SeqsUpTo(NamespaceNames, MaxNamespaces) :
          /\ client' = [namespaceMode |-> mode, namespaces |-> namespaces]
          /\ call' = [fn |-> "SetNamespaceFilter", mode |-> mode,
                      namespaces |-> namespaces]
    /\ ret' = [fn |-> "SetNamespaceFilter"]
    /\ UNCHANGED monitorVars

\* client.shouldProcessNamespace(namespace)
CallShouldProcessNamespace ==
    /\ \E namespace \in NamespaceNames :
          /\ call' = [fn |-> "shouldProcessNamespace", namespace |-> namespace]
          /\ ret' = [fn |-> "shouldProcessNamespace",
                     result |-> shouldProcessNamespace(client, namespace)]
    /\ UNCHANGED client
    /\ UNCHANGED monitorVars

NextNamespaceFilter == CallSetNamespaceFilter \/ CallShouldProcessNamespace

SpecNamespaceFilter == Init /\ [][NextNamespaceFilter]_vars

----------------------------------------------------------------------------
(* The extractor: extractEndpointsFromIngress, called directly as            *)
(* TestExtractEndpointsFromIngress calls it.  A Go pointer is a sequence of  *)
(* no element (nil) or one (the value pointed to).                           *)

RuleHosts == {"", "a.com", "b.com"}
RulePaths == {"", "/api"}
ServiceNames == {"svc", "svc2"}

EndpointAnnotation == "health.monitor/endpoint"
PathAnnotationPrefix == "health.monitor/path."

\* networkingv1.HTTPIngressPath: Path, *PathType, Backend.Service (*IngressServiceBackend)
IngressPaths ==
    [Path : RulePaths,
     PathType : {<<>>, <<"Prefix">>},
     Backend : [Service : {<<>>} \cup { <<[Name |-> n]>> : n \in ServiceNames }]]

\* networkingv1.IngressRule with exactly k paths: Host, and HTTP nil (k = 0) or
\* pointing to k Paths
RulesWithPaths(k) ==
    [Host : RuleHosts,
     HTTP : (IF k = 0 THEN {<<>>} ELSE {})
              \cup { <<[Paths |-> ps]>> : ps \in [1..k -> IngressPaths] }]

\* Spec.Rules: at most r rules holding at most n paths between them
RECURSIVE RuleSeqs(_, _)
RuleSeqs(r, n) ==
    {<<>>} \cup
    (IF r = 0 THEN {}
     ELSE UNION { { <<rule>> \o rest : rule \in RulesWithPaths(k),
                                       rest \in RuleSeqs(r - 1, n - k) } :
                  k \in 0..n })

\* ObjectMeta.Annotations: none, the declaration-wide health path, the health path
\* of service svc, or both
AnnotationSets ==
    { EmptyMap,
      [a \in {EndpointAnnotation} |-> "/healthz"],
      [a \in {PathAnnotationPrefix \o "svc"} |-> "/ready"],
      [a \in {EndpointAnnotation, PathAnnotationPrefix \o "svc"} |->
          IF a = EndpointAnnotation THEN "/healthz" ELSE "/ready"] }

\* Spec.TLS: empty, or one entry naming host a.com only
TLSSections == { <<>>, <<[Hosts |-> <<"a.com">>]>> }

\* networkingv1.Ingress: with at most r rules holding at most n paths
Ingresses(r, n) ==
    { [Namespace |-> "default", Name |-> "ing1", Labels |-> [app |-> "web"],
       Annotations |-> annotations, Spec |-> [TLS |-> tls, Rules |-> rules]] :
         annotations \in AnnotationSets, tls \in TLSSections,
         rules \in RuleSeqs(r, n) }

protocolAlwaysHttp(ingress) == "http"

\* tls := len(ingress.Spec.TLS) > 0; protocol := "http"; if tls { protocol = "https" }
protocol(ingress) == IF Len(ingress.Spec.TLS) > 0 THEN "https" ELSE "http"

buildURLHttps(proto, host) == "https" \o "://" \o host

\* url := protocol + "://" + host
buildURL(proto, host) == proto \o "://" \o host

healthEndpointGeneralFirst(annotations, serviceName, routePath) ==
    IF EndpointAnnotation \in DOMAIN annotations
      THEN annotations[EndpointAnnotation]
      ELSE IF (PathAnnotationPrefix \o serviceName) \in DOMAIN annotations
        THEN annotations[PathAnnotationPrefix \o serviceName]
        ELSE routePath

\* healthEndpoint := routePath, unless annotations["health.monitor/path."+serviceName]
\* is set, else unless annotations["health.monitor/endpoint"] is set
healthEndpoint(annotations, serviceName, routePath) ==
    IF (PathAnnotationPrefix \o serviceName) \in DOMAIN annotations
      THEN annotations[PathAnnotationPrefix \o serviceName]
      ELSE IF EndpointAnnotation \in DOMAIN annotations
        THEN annotations[EndpointAnnotation]
        ELSE routePath

\* the outcome of the extractor: it returned eps, or it panicked on the way
Returns(eps) == [panicked |-> FALSE, endpoints |-> eps]
Panics == [panicked |-> TRUE, endpoints |-> <<>>]

\* `for _, path := range rule.HTTP.Paths` over the remaining paths, with the
\* endpoints appended so far.  *path.PathType is evaluated first: on a nil pointer
\* the runtime panics.  The pathType it yields is used nowhere.
RECURSIVE rangePaths(_, _, _, _)
rangePaths(ingress, host, paths, eps) ==
    IF paths = <<>> THEN Returns(eps)
    ELSE LET path == Head(paths)
             routePath == IF path.Path = "" THEN "/" ELSE path.Path
         IN IF path.PathType = <<>> THEN Panics
            ELSE IF path.Backend.Service = <<>>
              THEN rangePaths(ingress, host, Tail(paths), eps)
              ELSE LET serviceName == path.Backend.Service[1].Name
                   IN rangePaths(ingress, host, Tail(paths),
                        Append(eps,
                          Endpoint(ingress.Namespace, serviceName, ingress.Name,
                                   buildURL(protocol(ingress), host),
                                   healthEndpoint(ingress.Annotations, serviceName,
                                                  routePath),
                                   ingress.Labels, ingress.Annotations)))

\* `for _, rule := range ingress.Spec.Rules` over the remaining rules
RECURSIVE rangeRules(_, _, _)
rangeRules(ingress, rules, eps) ==
    IF rules = <<>> THEN Returns(eps)
    ELSE LET rule == Head(rules)
         IN IF rule.Host = "" \/ rule.HTTP = <<>>
              THEN rangeRules(ingress, Tail(rules), eps)
              ELSE LET got == rangePaths(ingress, rule.Host, rule.HTTP[1].Paths, eps)
                   IN IF got.panicked THEN Panics
                      ELSE rangeRules(ingress, Tail(rules), got.endpoints)

extractEndpointsFromIngress(ingress) == rangeRules(ingress, ingress.Spec.Rules, <<>>)

\* extractEndpointsFromIngress(ingress), once, on any ingress
CallExtractEndpointsFromIngress ==
    /\ call.fn = "none"
    /\ \E ingress \in Ingresses(MaxRules, MaxPaths) :
          /\ call' = [fn |-> "extractEndpointsFromIngress", ingress |-> ingress]
          /\ ret' = [fn |-> "extractEndpointsFromIngress",
                     out |-> extractEndpointsFromIngress(ingress)]
    /\ UNCHANGED client
    /\ UNCHANGED monitorVars

SpecExtract == Init /\ [][CallExtractEndpointsFromIngress]_vars

----------------------------------------------------------------------------
(* The discovery call: Client.DiscoverIngressEndpoints on a cluster *)

\* one HTTPIngressPath with a path type and a bound service
BoundPath(path, serviceName) ==
    [Path |-> path, PathType |-> <<"Prefix">>,
     Backend |-> [Service |-> <<[Name |-> serviceName]>>]]

\* one rule with host and paths
HostRule(host, paths) == [Host |-> host, HTTP |-> <<[Paths |-> paths]>>]

\* The ingresses a cluster can hold: ing1 routes svc and svc2 behind a.com; ing2
\* routes api behind b.com under TLS with a declaration-wide health path; ing3, in
\* namespace prod, has a health path that is no valid URL path; ing4 and ing5, in
\* kube-system, have a path without path type and a rule without host.
ing1 ==
    [Namespace |-> "default", Name |-> "ing1", Labels |-> [app |-> "web"],
     Annotations |-> EmptyMap,
     Spec |-> [TLS |-> <<>>,
               Rules |-> <<HostRule("a.com", <<BoundPath("", "svc"),
                                               BoundPath("/", "svc2")>>)>>]]
ing2 ==
    [Namespace |-> "default", Name |-> "ing2", Labels |-> EmptyMap,
     Annotations |-> [a \in {EndpointAnnotation} |-> "/health"],
     Spec |-> [TLS |-> <<[Hosts |-> <<"b.com">>]>>,
               Rules |-> <<HostRule("b.com", <<BoundPath("/api", "api")>>)>>]]
ing3 ==
    [Namespace |-> "prod", Name |-> "ing3", Labels |-> EmptyMap,
     Annotations |-> [a \in {EndpointAnnotation} |-> "/%zz"],
     Spec |-> [TLS |-> <<>>,
               Rules |-> <<HostRule("c.com", <<BoundPath("/", "bad")>>)>>]]
ing4 ==
    [Namespace |-> "kube-system", Name |-> "ing4", Labels |-> EmptyMap,
     Annotations |-> EmptyMap,
     Spec |-> [TLS |-> <<>>,
               Rules |-> <<HostRule("d.com",
                             <<[Path |-> "/", PathType |-> <<>>,
                                Backend |-> [Service |-> <<[Name |-> "dns"]>>]]>>)>>]]
ing5 ==
    [Namespace |-> "kube-system", Name |-> "ing5", Labels |-> EmptyMap,
     Annotations |-> EmptyMap,
     Spec |-> [TLS |-> <<>>,
               Rules |-> <<HostRule("", <<BoundPath("/", "dns")>>)>>]]

ClusterIngresses == {ing1, ing2, ing3, ing4, ing5}

\* c.clientset.NetworkingV1().Ingresses(namespace).List: every ingress of the
\* cluster when namespace is "", those of the one namespace otherwise
List(cluster, namespace) ==
    IF namespace = "" THEN cluster
    ELSE SelectSeq(cluster, LAMBDA ingress : ingress.Namespace = namespace)

\* the outcome of a discovery call
Discovered(eps) == [err |-> FALSE, panicked |-> FALSE, endpoints |-> eps]
DiscoveryError == [err |-> TRUE, panicked |-> FALSE, endpoints |-> <<>>]
DiscoveryPanic == [err |-> FALSE, panicked |-> TRUE, endpoints |-> <<>>]

RECURSIVE rangeItemsUnfiltered(_, _, _)
rangeItemsUnfiltered(c, items, eps) ==
    IF items = <<>> THEN Discovered(eps)
    ELSE LET got == extractEndpointsFromIngress(Head(items))
         IN IF got.panicked THEN DiscoveryPanic
            ELSE rangeItemsUnfiltered(c, Tail(items), eps \o got.endpoints)

\* `for _, ingress := range ingresses.Items` over the remaining items, with the
\* endpoints appended so far
RECURSIVE rangeItems(_, _, _)
rangeItems(c, items, eps) ==
    IF items = <<>> THEN Discovered(eps)
    ELSE IF ~shouldProcessNamespace(c, Head(items).Namespace)
      THEN rangeItems(c, Tail(items), eps)
      ELSE LET got == extractEndpointsFromIngress(Head(items))
           IN IF got.panicked THEN DiscoveryPanic
              ELSE rangeItems(c, Tail(items), eps \o got.endpoints)

\* Client.DiscoverIngressEndpoints on a cluster whose List call fails or not
DiscoverIngressEndpoints(c, cluster, listFails) ==
    IF listFails THEN DiscoveryError
    ELSE rangeItems(c, List(cluster, ""), <<>>)

\* client.DiscoverIngressEndpoints(ctx)
CallDiscoverIngressEndpoints ==
    /\ \E cluster \in SeqsUpTo(ClusterIngresses, MaxIngresses), listFails \in BOOLEAN :
          /\ call' = [fn |-> "DiscoverIngressEndpoints", cluster |-> cluster,
                      listFails |-> listFails]
          /\ ret' = [fn |-> "DiscoverIngressEndpoints",
                     out |-> DiscoverIngressEndpoints(client, cluster, listFails)]
    /\ UNCHANGED client
    /\ UNCHANGED monitorVars

NextDiscover == CallSetNamespaceFilter \/ CallDiscoverIngressEndpoints

SpecDiscover == Init /\ [][NextDiscover]_vars

----------------------------------------------------------------------------
(* Direct calls of endpointKey, as TestEndpointKey makes them *)

\* the endpoints endpointKey is called with: every field takes two values
KeyedEndpoints ==
    [Namespace : {"default", "prod"}, ServiceName : {"svc", "svc2"},
     IngressName : {"ing1", "ing2"}, URL : {"http://a.com", "https://b.com"},
     Path : {"/", "/health"}, Labels : {EmptyMap, [app |-> "web"]},
     Annotations : {EmptyMap, [a \in {"health.monitor/endpoint"} |-> "/health"]}]

\* endpointKey(a) and endpointKey(b), once, on any two endpoints
CallEndpointKey ==
    /\ call.fn = "none"
    /\ \E a \in KeyedEndpoints, b \in KeyedEndpoints :
          /\ call' = [fn |-> "endpointKey", a |-> a, b |-> b]
          /\ ret' = [fn |-> "endpointKey", keyA |-> endpointKey(a),
                     keyB |-> endpointKey(b)]
    /\ UNCHANGED client
    /\ UNCHANGED monitorVars

SpecEndpointKey == Init /\ [][CallEndpointKey]_vars

----------------------------------------------------------------------------
(* Configuration: config.LoadConfig.  A Go string is the sequence of its    *)
(* characters; an int or a time.Duration is a 64-bit two's complement       *)
(* integer, held as four 16-bit limbs, least significant first.             *)

Limb == 65536

\* the int64 of a small integer
Int64(n) ==
    IF n >= 0 THEN <<n % Limb, (n \div Limb) % Limb, 0, 0>>
    ELSE LET k == 0 - (n + 1)
         IN <<(Limb - 1) - (k % Limb), (Limb - 1) - ((k \div Limb) % Limb),
              Limb - 1, Limb - 1>>

\* x > 0, as the int64 comparison decides it
Positive(x) == x[4] < Limb \div 2 /\ x # <<0, 0, 0, 0>>

\* limbs * 10 + carry, limb by limb; the carry out of the last limb is dropped
RECURSIVE mulAdd10(_, _)
mulAdd10(limbs, carry) ==
    IF limbs = <<>> THEN <<>>
    ELSE LET v == Head(limbs) * 10 + carry
         IN <<v % Limb>> \o mulAdd10(Tail(limbs), v \div Limb)

\* x * 10^k in int64 arithmetic (the product wraps modulo 2^64)
RECURSIVE mulPow10(_, _)
mulPow10(x, k) == IF k = 0 THEN x ELSE mulPow10(mulAdd10(x, 0), k - 1)

\* time.Duration(x) * time.Second: x * 1000000000 nanoseconds
seconds(x) == mulPow10(x, 9)

\* 0 - x in int64 arithmetic: complement every limb, add one
RECURSIVE addOne(_)
addOne(limbs) ==
    IF limbs = <<>> THEN <<>>
    ELSE IF Head(limbs) = Limb - 1 THEN <<0>> \o addOne(Tail(limbs))
    ELSE <<Head(limbs) + 1>> \o Tail(limbs)

negate(x) == addOne([i \in 1..Len(x) |-> (Limb - 1) - x[i]])

DigitChars == <<"0", "1", "2", "3", "4", "5", "6", "7", "8", "9">>

isDigit(ch) == \E d \in 1..10 : DigitChars[d] = ch

digitValue(ch) == (CHOOSE d \in 1..10 : DigitChars[d] = ch) - 1

\* the magnitude of a digit string, in six limbs (wide enough for 28 digits)
RECURSIVE magnitude(_, _)
magnitude(digits, acc) ==
    IF digits = <<>> THEN acc
    ELSE magnitude(Tail(digits), mulAdd10(acc, digitValue(Head(digits))))

\* strconv.Atoi: an optional sign, then one or more decimal digits, the value in
\* the range of int64; anything else is an error
Atoi(s) ==
    LET signed == s # <<>> /\ Head(s) \in {"+", "-"}
        neg == s # <<>> /\ Head(s) = "-"
        digits == IF signed THEN Tail(s) ELSE s
        mag == magnitude(digits, <<0, 0, 0, 0, 0, 0>>)
        fits == /\ mag[5] = 0
                /\ mag[6] = 0
                /\ \/ mag[4] < Limb \div 2
                   \/ (neg /\ mag[4] = Limb \div 2 /\ mag[3] = 0 /\ mag[2] = 0
                           /\ mag[1] = 0)
        abs == <<mag[1], mag[2], mag[3], mag[4]>>
    IN IF digits = <<>> \/ (\E i \in 1..Len(digits) : ~isDigit(digits[i])) \/ ~fits
         THEN [ok |-> FALSE, value |-> Int64(0)]
         ELSE [ok |-> TRUE, value |-> IF neg THEN negate(abs) ELSE abs]

UpperChars == <<"A", "B", "C", "D", "E", "F", "G", "H", "I", "J", "K", "L", "M", "N",
                "O", "P", "Q", "R", "S", "T", "U", "V", "W", "X", "Y", "Z">>
LowerChars == <<"a", "b", "c", "d", "e", "f", "g", "h", "i", "j", "k", "l", "m", "n",
                "o", "p", "q", "r", "s", "t", "u", "v", "w", "x", "y", "z">>

\* strings.ToLower
ToLower(s) ==
    [i \in 1..Len(s) |->
        IF \E j \in 1..26 : UpperChars[j] = s[i]
          THEN LowerChars[CHOOSE j \in 1..26 : UpperChars[j] = s[i]]
          ELSE s[i]]

SpaceChars == {" ", "\t", "\n", "\r"}

RECURSIVE trimLeft(_)
trimLeft(s) ==
    IF s # <<>> /\ Head(s) \in SpaceChars THEN trimLeft(Tail(s)) ELSE s

RECURSIVE trimRight(_)
trimRight(s) ==
    IF s # <<>> /\ s[Len(s)] \in SpaceChars THEN trimRight(SubSeq(s, 1, Len(s) - 1))
    ELSE s

\* strings.TrimSpace
TrimSpace(s) == trimRight(trimLeft(s))

\* strings.Split(s, ","), with the piece being read in cur
RECURSIVE splitFrom(_, _)
splitFrom(s, cur) ==
    IF s = <<>> THEN <<cur>>
    ELSE IF Head(s) = "," THEN <<cur>> \o splitFrom(Tail(s), <<>>)
    ELSE splitFrom(Tail(s), Append(cur, Head(s)))

Split(s) == splitFrom(s, <<>>)

\* the loop appending every piece that Atoi accepts, trimmed, to statusCodes
RECURSIVE parseCodes(_)
parseCodes(pieces) ==
    IF pieces = <<>> THEN <<>>
    ELSE LET got == Atoi(TrimSpace(Head(pieces)))
         IN (IF got.ok THEN <<got.value>> ELSE <<>>) \o parseCodes(Tail(pieces))

DefaultMonitoringInterval == seconds(Int64(30))
DefaultMetricsInterval == seconds(Int64(10))
DefaultOtelCollectorURL == <<"s", "i", "g", "n", "o", "z", "-", "o", "t", "e", "l",
        "-", "c", "o", "l", "l", "e", "c", "t", "o", "r", ":", "4", "3", "1", "7">>
DefaultNamespaceMode == <<"a", "l", "l", "o", "w">>
DefaultConfigCodes == <<Int64(401), Int64(403), Int64(404)>>

\* config := &Config{...defaults...}
DefaultConfig ==
    [MonitoringInterval |-> DefaultMonitoringInterval,
     MetricsInterval |-> DefaultMetricsInterval,
     OtelCollectorURL |-> DefaultOtelCollectorURL,
     SuccessStatusCodes |-> DefaultConfigCodes,
     NamespaceMode |-> DefaultNamespaceMode,
     Namespaces |-> <<>>]

\* "Apply config file values": each field of the parsed ConfigFile that is set
applyFile(config, cf) ==
    [MonitoringInterval |->
        IF Positive(cf.MonitoringInterval) THEN seconds(cf.MonitoringInterval)
        ELSE config.MonitoringInterval,
     SuccessStatusCodes |->
        IF Len(cf.SuccessStatusCodes) > 0 THEN cf.SuccessStatusCodes
        ELSE config.SuccessStatusCodes,
     MetricsInterval |->
        IF Positive(cf.MetricsInterval) THEN seconds(cf.MetricsInterval)
        ELSE config.MetricsInterval,
     OtelCollectorURL |->
        IF cf.OtelCollectorURL # <<>> THEN cf.OtelCollectorURL
        ELSE config.OtelCollectorURL,
     NamespaceMode |->
        IF cf.NamespaceMode # <<>> THEN cf.NamespaceMode ELSE config.NamespaceMode,
     Namespaces |->
        IF Len(cf.Namespaces) > 0 THEN cf.Namespaces ELSE config.Namespaces]

\* an interval variable: used if Atoi accepts it and the number is positive
envInterval(old, value) ==
    IF value = <<>> THEN old
    ELSE LET got == Atoi(value)
         IN IF got.ok /\ Positive(got.value) THEN seconds(got.value) ELSE old

\* SUCCESS_STATUS_CODES: used if at least one piece is an integer
envCodes(old, value) ==
    IF value = <<>> THEN old
    ELSE LET statusCodes == parseCodes(Split(value))
         IN IF Len(statusCodes) > 0 THEN statusCodes ELSE old

envModeAnyValue(old, value) == IF value = <<>> THEN old ELSE ToLower(value)

\* NAMESPACE_MODE: used, in lower case, if that is "allow" or "deny"
envMode(old, value) ==
    IF value = <<>> THEN old
    ELSE LET mode == ToLower(value)
         IN IF mode = <<"a", "l", "l", "o", "w">> \/ mode = <<"d", "e", "n", "y">>
              THEN mode ELSE old

\* NAMESPACES: the pieces between commas, each trimmed
envNamespaces(old, value) ==
    IF value = <<>> THEN old
    ELSE LET pieces == Split(value)
         IN [i \in 1..Len(pieces) |-> TrimSpace(pieces[i])]

\* "Override with environment variables if set"; os.Getenv gives "" for a variable
\* that is not set
applyEnv(config, env) ==
    [MonitoringInterval |->
        envInterval(config.MonitoringInterval, env.MONITOR_INTERVAL_SECONDS),
     MetricsInterval |->
        envInterval(config.MetricsInterval, env.METRICS_INTERVAL_SECONDS),
     OtelCollectorURL |->
        IF env.OTEL_COLLECTOR_URL # <<>> THEN env.OTEL_COLLECTOR_URL
        ELSE config.OtelCollectorURL,
     SuccessStatusCodes |-> envCodes(config.SuccessStatusCodes, env.SUCCESS_STATUS_CODES),
     NamespaceMode |-> envMode(config.NamespaceMode, env.NAMESPACE_MODE),
     Namespaces |-> envNamespaces(config.Namespaces, env.NAMESPACES)]

\* what LoadConfig returns: (config, nil) or (nil, error)
Loaded(config) == [err |-> FALSE, config |-> <<config>>]
LoadError == [err |-> TRUE, config |-> <<>>]

LoadConfigIgnoresBadFile(file, env) ==
    IF file.kind = "parsed"
      THEN Loaded(applyEnv(applyFile(DefaultConfig, file.parsed), env))
      ELSE Loaded(applyEnv(DefaultConfig, env))

\* config.LoadConfig: ioutil.ReadFile fails (no file is applied), or yaml.Unmarshal
\* fails (an error is returned), or the parsed file is applied; then the environment
LoadConfig(file, env) ==
    IF file.kind = "unreadable" THEN Loaded(applyEnv(DefaultConfig, env))
    ELSE IF file.kind = "unparsable" THEN LoadError
    ELSE Loaded(applyEnv(applyFile(DefaultConfig, file.parsed), env))

\* the ConfigFile of a file that names none of the settings
EmptyConfigFile ==
    [MonitoringInterval |-> Int64(0), SuccessStatusCodes |-> <<>>,
     MetricsInterval |-> Int64(0), OtelCollectorURL |-> <<>>, NamespaceMode |-> <<>>,
     Namespaces |-> <<>>]

\* what yaml.Unmarshal can leave in a ConfigFile: per field the zero value (the
\* file does not name it) or a value
ConfigFiles ==
    [MonitoringInterval : {Int64(0), Int64(45), Int64(0 - 5)},
     SuccessStatusCodes : {<<>>, <<Int64(200), Int64(418)>>},
     MetricsInterval : {Int64(0), Int64(15)},
     OtelCollectorURL : {<<>>, <<"f", "i", "l", "e", ":", "4", "3", "1", "7">>},
     NamespaceMode : {<<>>, <<"b", "l", "o", "c", "k">>},
     Namespaces : {<<>>, <<<<"k", "u", "b", "e", "-", "s", "y", "s", "t", "e", "m">>>>}]

\* config.yaml as LoadConfig finds it
FileInputs ==
    {[kind |-> "unreadable", parsed |-> EmptyConfigFile],
     [kind |-> "unparsable", parsed |-> EmptyConfigFile]}
    \cup { [kind |-> "parsed", parsed |-> cf] : cf \in ConfigFiles }

\* the environment: per variable "" (not set, or set to nothing) or a value
EnvInputs ==
    [MONITOR_INTERVAL_SECONDS :
        {<<>>, <<"6", "0">>, <<"-", "5">>, <<"i", "n", "v", "a", "l", "i", "d">>,
         <<"9", "2", "2", "3", "3", "7", "2", "0", "3", "7">>},
     METRICS_INTERVAL_SECONDS :
        {<<>>, <<"2", "0">>, <<"0">>},
     OTEL_COLLECTOR_URL : {<<>>, <<"e", "n", "v", ":", "4", "3", "1", "7">>},
     SUCCESS_STATUS_CODES :
        {<<>>, <<"5", "0", "0", ",", " ", "4", "1", "8", ",", "a", "b", "c">>,
         <<"i", "n", "v", "a", "l", "i", "d", ",", " ", "c", "o", "d", "e", "s">>},
     NAMESPACE_MODE : {<<>>, <<"D", "E", "N", "Y">>, <<"i", "n", "v", "a", "l", "i", "d">>},
     NAMESPACES :
        {<<>>, <<" ", "p", "r", "o", "d", " ", ",", " ", "d", "e", "f", "a", "u", "l", "t">>}]

\* config.LoadConfig(), once, with any file and environment
CallLoadConfig ==
    /\ call.fn = "none"
    /\ \E file \in FileInputs :
          \E env \in EnvInputs :
             /\ call' = [fn |-> "LoadConfig", file |-> file, env |-> env]
             /\ ret' = [fn |-> "LoadConfig", out |-> LoadConfig(file, env)]
    /\ UNCHANGED client
    /\ UNCHANGED monitorVars

SpecLoadConfig == Init /\ [][CallLoadConfig]_vars

----------------------------------------------------------------------------
(* Vocabulary of the properties *)

Range(seq) == { seq[i] : i \in 1..Len(seq) }

keyOf(t) == endpointKey(checks[t].ep)

Returned(t) == checks[t].pc = "returned"

AllReturned == \A t \in CheckIds : Returned(t)

DistinctKeys == \A i, j \in CheckIds : i # j => keyOf(i) # keyOf(j)

\* what the outcome of a check amounts to: up iff a response came back whose code
\* is 2xx or one of the extra success codes
OutcomeUp(check) ==
    /\ check.err = "none"
    /\ \/ (200 <= check.code /\ check.code < 300)
       \/ check.code \in Range(successStatusCodes)

InCriticalSection(t) == checks[t].pc \in {"storeEndpoint", "storeStatus"}

CallbackInCriticalSection == cbPc = "observed"

----------------------------------------------------------------------------
(* C1 *)

----------------------------------------------------------------------------
(* C2 *)

\* C2: at most one task (check goroutine or metrics callback) is inside a critical
\* section on the maps, and the task that is inside holds the mutex; the maps and
\* the callback's observations only change in a step of the mutex holder.
C2_StateMutualExclusion ==
    /\ Cardinality({ t \in CheckIds : InCriticalSection(t) })
         + (IF CallbackInCriticalSection THEN 1 ELSE 0) <= 1
    /\ \A t \in CheckIds : InCriticalSection(t) => mu = t
    /\ CallbackInCriticalSection => mu = CallbackTask
    /\ mu # Free =>
         \/ (mu = CallbackTask /\ CallbackInCriticalSection)
         \/ (mu \in CheckIds /\ InCriticalSection(mu))

C2_MutualExclusion ==
    /\ []C2_StateMutualExclusion
    /\ [][ /\ (endpoints' # endpoints \/ endpointStatus' # endpointStatus) =>
                (mu \in CheckIds /\ InCriticalSection(mu) /\ mu' = Free)
           /\ samples' # samples => (mu = CallbackTask \/ mu' = CallbackTask) ]_vars

\* a check waits for the mutex while the callback is reading the maps, and another
\* check is between its two critical sections
C2_Witness ==
    /\ CallbackInCriticalSection
    /\ \E t \in CheckIds : checks[t].pc = "lockStatus"
    /\ \E t \in CheckIds : checks[t].pc = "lockEndpoints"

----------------------------------------------------------------------------
(* C3 *)

\* C3: every key of the status map is a key of the endpoints map.
C3_StatusImpliesEndpoint == DOMAIN endpointStatus \subseteq DOMAIN endpoints

\* a status is recorded for one key while another key has only its endpoint entry
C3_Witness ==
    /\ DOMAIN endpointStatus # {}
    /\ DOMAIN endpointStatus # DOMAIN endpoints

----------------------------------------------------------------------------
(* C5 *)

\* C5: no step removes a key from the status map.
C5_StatusNeverRemoved ==
    [][DOMAIN endpointStatus \subseteq DOMAIN endpointStatus']_vars

\* a key has its status from the first cycle; the second cycle's discovery has
\* failed, the context is cancelled, the loop has returned and the callback runs
C5_Witness ==
    /\ DOMAIN endpointStatus # {}
    /\ AllReturned
    /\ cycles = 2
    /\ discoveryErr
    /\ ctxDone
    /\ loopPc = "returned"
    /\ cbPc = "observed"

----------------------------------------------------------------------------
(* C4 *)

\* the check in slot t has been launched
Launched(t) == t \in CheckIds

\* the check in slot t has completed with one status write, one count increment and
\* one duration observation
Completed(t) ==
    /\ Launched(t)
    /\ Returned(t)
    /\ Len(checks[t].statusWrites) = 1
    /\ Len(checks[t].counterObs) = 1
    /\ Len(checks[t].histogramObs) = 1

----------------------------------------------------------------------------
(* C6 *)

\* C6: checkStatus(c) is true exactly when 200 <= c < 300 or c is an element of the
\* configured list; with the default list 200, 299, 401, 403, 404 are up and 300,
\* 500 are down.
C6_CheckStatus ==
    call.fn = "checkStatus" =>
        /\ ret.success <=>
              \/ (200 <= call.statusCode /\ call.statusCode < 300)
              \/ call.statusCode \in Range(successStatusCodes)
        /\ successStatusCodes = <<401, 403, 404>> =>
              /\ call.statusCode \in {200, 299, 401, 403, 404} => ret.success
              /\ call.statusCode \in {300, 500} => ~ret.success

\* with the default list, 404 has been classified as up
C6_Witness ==
    /\ call.fn = "checkStatus"
    /\ successStatusCodes = <<401, 403, 404>>
    /\ call.statusCode = 404
    /\ ret.success

----------------------------------------------------------------------------
(* C7, C8 *)

\* the values recorded under attribute key k
Tag(attrs, k) == { p[2] : p \in { q \in attrs : q[1] = k } }

\* the check's endpoint identifies the observation
TaggedFor(attrs, endpoint) ==
    /\ Tag(attrs, "namespace") = {endpoint.Namespace}
    /\ Tag(attrs, "service") = {endpoint.ServiceName}
    /\ Tag(attrs, "ingress") = {endpoint.IngressName}
    /\ Tag(attrs, "url") = {endpoint.URL \o endpoint.Path}

NoResponse(check) == check.err \in {"transport", "canceled"}

\* launching is the business of checkEndpoints alone, and the loop ends only on
\* cancellation
OnlyCyclesLaunch ==
    /\ [](loopPc = "returned" => ctxDone)
    /\ [][Len(checks') # Len(checks) => (loopPc = "discovering" /\ loopPc' = "select")]_vars

\* C7: a check whose request yields no response writes Down to status[key] and
\* records one count increment and one duration observation tagged status="" and
\* success="false"; it issues one request only, launches nothing, and the loop
\* goes on.
C7_TransportErrorIsDown ==
    /\ [](\A t \in CheckIds : (NoResponse(checks[t]) /\ Returned(t)) =>
            /\ checks[t].statusWrites = <<FALSE>>
            /\ checks[t].requests = 1
            /\ Len(checks[t].counterObs) = 1
            /\ Len(checks[t].histogramObs) = 1
            /\ \A attrs \in {checks[t].counterObs[1], checks[t].histogramObs[1]} :
                  /\ Tag(attrs, "status") = {""}
                  /\ Tag(attrs, "success") = {"false"}
                  /\ TaggedFor(attrs, checks[t].ep))
    /\ [][\A t \in CheckIds :
            (NoResponse(checks[t]) /\ checks[t].pc = "storeStatus"
                /\ checks'[t].pc = "record") =>
                  endpointStatus'[keyOf(t)] = FALSE]_vars
    /\ OnlyCyclesLaunch

\* a request was cancelled in flight and another failed in transport; both checks
\* have returned and the loop is still selecting
C7_Witness ==
    /\ Len(checks) = 2
    /\ AllReturned
    /\ checks[1].err = "transport"
    /\ checks[2].err = "canceled"
    /\ loopPc = "select"

\* the decimal form of the codes the servers answer with
Decimal(c) ==
    CASE c = 200 -> "200"
      [] c = 404 -> "404"
      [] c = 500 -> "500"

\* C8: a check that obtains a response with code c writes checkStatus(c) to
\* status[key] and records one count increment and one duration observation whose
\* status tag is c in decimal and whose success tag is the boolean it wrote.
C8_ResponseIsClassified ==
    /\ [](\A t \in CheckIds : (checks[t].err = "none" /\ Returned(t)) =>
            /\ checks[t].code \in ResponseCodes
            /\ checks[t].statusWrites = <<OutcomeUp(checks[t])>>
            /\ Len(checks[t].counterObs) = 1
            /\ Len(checks[t].histogramObs) = 1
            /\ \A attrs \in {checks[t].counterObs[1], checks[t].histogramObs[1]} :
                  /\ Tag(attrs, "status") = {Decimal(checks[t].code)}
                  /\ Tag(attrs, "success") =
                        {IF checks[t].statusWrites[1] THEN "true" ELSE "false"}
                  /\ TaggedFor(attrs, checks[t].ep))
    /\ [][\A t \in CheckIds :
            (checks[t].err = "none" /\ checks[t].pc = "storeStatus"
                /\ checks'[t].pc = "record") =>
                  endpointStatus'[keyOf(t)] = OutcomeUp(checks[t])]_vars

\* responses 404 (up by the extra list) and 500 (down) have been recorded
C8_Witness ==
    /\ Len(checks) = 2
    /\ AllReturned
    /\ checks[1].err = "none" /\ checks[1].code = 404
    /\ checks[2].err = "none" /\ checks[2].code = 500

----------------------------------------------------------------------------
(* C9 *)

\* C9: the loop runs its first cycle before it consumes any tick: it is never at
\* the select without a cycle begun, and the cycles begun are always one more than
\* the ticks consumed.
C9_FirstCycleImmediately ==
    /\ cycles = 0 => (ticksConsumed = 0 /\ loopPc \in {"notStarted", "begin"})
    /\ cycles >= 1 => ticksConsumed = cycles - 1

\* the first discovery is under way, no tick consumed, although one is ready
C9_Witness ==
    /\ cycles = 1
    /\ ticksConsumed = 0
    /\ tickReady
    /\ loopPc = "discovering"

----------------------------------------------------------------------------
(* C10 *)

\* the step in which DiscoverIngressEndpoints returns an error
DiscoveryFailsStep ==
    /\ loopPc \in {"discovering", "discoveringCancelled"}
    /\ loopPc' # loopPc
    /\ discoveryErr'

\* C10: the step in which discovery fails launches no check and changes neither
\* map; the loop goes back to its select with the ticker running, and there a ready
\* tick starts the next cycle.
C10_DiscoveryFailureSkipsCycle ==
    /\ [][DiscoveryFailsStep =>
            /\ checks' = checks
            /\ endpoints' = endpoints
            /\ endpointStatus' = endpointStatus
            /\ loopPc' = "select"
            /\ tickerActive']_vars
    /\ []((discoveryErr /\ loopPc = "select" /\ tickReady /\ cycles < MaxCycles) =>
            ENABLED SelectTick)

\* the first cycle's discovery failed and launched nothing; the loop went on and
\* the next tick has started the second discovery
C10_Witness ==
    /\ discoveryErr
    /\ cycles = 2
    /\ ticksConsumed = 1
    /\ loopPc = "discovering"
    /\ checks = <<>>
    /\ DOMAIN endpoints = {}

----------------------------------------------------------------------------
(* C11 *)

\* C11: once the context is cancelled the loop begins no cycle on a tick: it is
\* never inside a checkEndpoints call that a tick started with the context already
\* cancelled.
C11_NoCycleAfterCancel ==
    ~(loopPc = "discoveringCancelled" /\ ticksConsumed >= 1)

----------------------------------------------------------------------------
(* C12 *)

\* the request of check t was sent before the cancellation and has not ended
InFlightAtCancel(t) == checks[t].pc = "inFlight" /\ ctxDone

\* C12: a request in flight when the context is cancelled is not ended by the
\* cancellation: the step that ends it never reports the context's error, so the
\* check never writes Down on account of it.
C12_InFlightCheckSurvivesCancel ==
    [][\A t \in CheckIds :
         InFlightAtCancel(t) => checks'[t].err # "canceled"]_vars

----------------------------------------------------------------------------
(* C13 *)

\* the entry of key k differs between the maps old and new
EntryChanged(old, new, k) ==
    \/ (k \in DOMAIN old) # (k \in DOMAIN new)
    \/ (k \in DOMAIN old /\ k \in DOMAIN new /\ old[k] # new[k])

KeysOf(old, new) == (DOMAIN old) \cup (DOMAIN new)

\* C13: a step changes an entry of either map only for the key of the one check
\* that takes the step, whatever that check's outcome, and leaves every other
\* check where it was; and every dispatched check runs to its own return.
C13_CheckTouchesOnlyItsKey ==
    /\ [][\A k \in KeysOf(endpoints, endpoints') \cup
                      KeysOf(endpointStatus, endpointStatus') :
            (EntryChanged(endpoints, endpoints', k)
                \/ EntryChanged(endpointStatus, endpointStatus', k)) =>
                \E t \in CheckIds :
                    /\ keyOf(t) = k
                    /\ checks'[t] # checks[t]
                    /\ \A u \in CheckIds \ {t} : checks'[u] = checks[u]]_vars
    /\ \A t \in 1..MaxChecks : Launched(t) ~> (Launched(t) /\ Returned(t))

\* of two checks on distinct keys one could not build its request and the other
\* has recorded the status of its own key; both have returned
C13_Witness ==
    /\ Len(checks) = 2
    /\ AllReturned
    /\ DistinctKeys
    /\ checks[2].err = "build"
    /\ Completed(1)
    /\ DOMAIN endpointStatus = {keyOf(1)}
    /\ DOMAIN endpoints = {keyOf(1), keyOf(2)}

----------------------------------------------------------------------------
(* C14 *)

\* a step of the periodic loop goroutine
LoopStep == loopPc' # loopPc \/ cycles' # cycles

\* no check of the latest cycle is for key k
Stale(k) == \A t \in CheckIds : keyOf(t) = k => checks[t].cycle < cycles

\* C14: no step removes a key from either map; a step of the loop, whatever its
\* discovery returns, leaves both maps as they are (an endpoint that is no longer
\* discovered keeps its entry and its last status); and a run of the callback
\* holds a sample for every key that has a status, stale or not.
C14_StaleEntriesPersist ==
    /\ [][ /\ DOMAIN endpoints \subseteq DOMAIN endpoints'
           /\ DOMAIN endpointStatus \subseteq DOMAIN endpointStatus'
           /\ LoopStep => (endpoints' = endpoints /\ endpointStatus' = endpointStatus)
         ]_vars
    /\ [](cbPc = "observed" =>
            \A k \in DOMAIN endpointStatus :
                gaugeSample(endpoints[k], endpointStatus[k]) \in samples)

\* the second cycle's discovery has returned without the endpoint the first cycle
\* checked; its entries are still there and the callback has just sampled it
C14_Witness ==
    /\ cycles = 2
    /\ loopPc = "select"
    /\ ~discoveryErr
    /\ \E k \in DOMAIN endpointStatus :
          /\ Stale(k)
          /\ k \in DOMAIN endpoints
          /\ cbPc = "observed"
          /\ gaugeSample(endpoints[k], endpointStatus[k]) \in samples

----------------------------------------------------------------------------
(* C15 *)

\* the samples the running callback has emitted for the endpoint
SamplesFor(endpoint) == { s \in samples : TaggedFor(s.attrs, endpoint) }

\* exactly one sample is emitted for the entry of key k, with the value of its status
OneSampleFor(k) ==
    /\ k \in DOMAIN endpointStatus
    /\ Cardinality(SamplesFor(endpoints[k])) = 1
    /\ \A s \in SamplesFor(endpoints[k]) :
          s.value = (IF endpointStatus[k] THEN 1 ELSE 0)

\* C15 as stated: a run of the callback emits exactly one sample for every key of
\* the endpoints map, 1 if its status is up and 0 if down, tagged with the entry's
\* namespace, service, ingress and url+path.
C15_SamplePerEndpointKey ==
    cbPc = "observed" => \A k \in DOMAIN endpoints : OneSampleFor(k)

\* C15 amended: a run of the callback emits exactly one sample for every key of
\* the endpoints map that has a status, 1 if up and 0 if down, tagged with the
\* entry's namespace, service, ingress and url+path; for a key that has no status
\* yet it emits nothing; between runs nothing is emitted.
C15_SamplePerStatusKey ==
    /\ cbPc = "observed" =>
          /\ \A k \in DOMAIN endpointStatus : k \in DOMAIN endpoints /\ OneSampleFor(k)
          /\ \A k \in (DOMAIN endpoints) \ (DOMAIN endpointStatus) :
                SamplesFor(endpoints[k]) = {}
          /\ Cardinality(samples) = Cardinality(DOMAIN endpointStatus)
    /\ cbPc = "idle" => samples = {}

\* the callback runs while one key is up, one is down and there is nothing else
C15_Witness ==
    /\ cbPc = "observed"
    /\ Cardinality(samples) = 2
    /\ { s.value : s \in samples } = {0, 1}
    /\ DOMAIN endpoints = DOMAIN endpointStatus

----------------------------------------------------------------------------
(* C16 *)

\* C16: with mode allow or deny, shouldProcessNamespace(ns) is, for an empty list,
\* true iff the mode is allow, and for a non-empty list, (ns in list) under allow
\* and (ns not in list) under deny; and the call leaves the client as it was.
C16_ShouldProcessNamespace ==
    /\ []((call.fn = "shouldProcessNamespace"
             /\ client.namespaceMode \in {"allow", "deny"}) =>
            ret.result =
               IF client.namespaces = <<>>
                 THEN client.namespaceMode = "allow"
                 ELSE IF client.namespaceMode = "allow"
                   THEN call.namespace \in Range(client.namespaces)
                   ELSE call.namespace \notin Range(client.namespaces))
    /\ [][call'.fn = "shouldProcessNamespace" => client' = client]_vars

\* deny mode with a two-element list: a namespace outside it has been accepted
C16_Witness ==
    /\ call.fn = "shouldProcessNamespace"
    /\ client.namespaceMode = "deny"
    /\ Len(client.namespaces) = 2
    /\ call.namespace \notin Range(client.namespaces)
    /\ ret.result

----------------------------------------------------------------------------
(* Vocabulary of the extractor's properties *)

\* the extractor has been called and has returned
Extracted == call.fn = "extractEndpointsFromIngress" /\ ~ret.out.panicked

\* every path rule of the declaration with the host of its rule, in order
RECURSIVE PathRulesOf(_)
PathRulesOf(rules) ==
    IF rules = <<>> THEN <<>>
    ELSE LET rule == Head(rules)
             own == IF rule.HTTP = <<>> THEN <<>>
                    ELSE [i \in 1..Len(rule.HTTP[1].Paths) |->
                            [host |-> rule.Host, path |-> rule.HTTP[1].Paths[i]]]
         IN own \o PathRulesOf(Tail(rules))

\* a path rule under a non-empty host with a bound service
Emits(pr) == pr.host # "" /\ pr.path.Backend.Service # <<>>

Emitting(ingress) == SelectSeq(PathRulesOf(ingress.Spec.Rules), Emits)

\* the scheme a url starts with
Scheme(url) ==
    IF \E h \in RuleHosts : url = "https://" \o h THEN "https"
    ELSE IF \E h \in RuleHosts : url = "http://" \o h THEN "http"
    ELSE ""

\* the declaration lists TLS for host h
HostListed(ingress, h) ==
    \E j \in 1..Len(ingress.Spec.TLS) : h \in Range(ingress.Spec.TLS[j].Hosts)

----------------------------------------------------------------------------
(* C17 *)

\* C17: the endpoint emitted for a path rule bound to service s has Path equal to
\* the annotation health.monitor/path.s if present, else the annotation
\* health.monitor/endpoint if present, else the rule's path, or "/" when that is
\* empty.
C17_HealthPathPrecedence ==
    Extracted =>
        LET ingress == call.ingress
            ann == ingress.Annotations
            eps == ret.out.endpoints
            prs == Emitting(ingress)
        IN /\ Len(eps) = Len(prs)
           /\ \A i \in 1..Len(eps) :
                LET s == prs[i].path.Backend.Service[1].Name
                IN /\ eps[i].ServiceName = s
                   /\ eps[i].Path =
                        IF ("health.monitor/path." \o s) \in DOMAIN ann
                          THEN ann["health.monitor/path." \o s]
                          ELSE IF "health.monitor/endpoint" \in DOMAIN ann
                            THEN ann["health.monitor/endpoint"]
                            ELSE IF prs[i].path.Path = "" THEN "/"
                            ELSE prs[i].path.Path

\* both annotations are set: svc gets its own health path, svc2 the declaration's
C17_Witness ==
    /\ Extracted
    /\ DOMAIN call.ingress.Annotations =
          {"health.monitor/endpoint", "health.monitor/path.svc"}
    /\ Len(ret.out.endpoints) = 2
    /\ ret.out.endpoints[1].ServiceName = "svc"
    /\ ret.out.endpoints[1].Path = "/ready"
    /\ ret.out.endpoints[2].ServiceName = "svc2"
    /\ ret.out.endpoints[2].Path = "/healthz"

----------------------------------------------------------------------------
(* C18 *)

\* C18: the extractor returns normally on every declaration, also a partial or
\* malformed one, and an offending rule yields no endpoint.
C18_ExtractionNeverFails ==
    call.fn = "extractEndpointsFromIngress" =>
        /\ ~ret.out.panicked
        /\ Len(ret.out.endpoints) = Len(Emitting(call.ingress))

----------------------------------------------------------------------------
(* C19 *)

\* C19: with a non-empty TLS section every emitted endpoint has an https:// URL,
\* whatever hosts the section names; with an empty TLS section every emitted
\* endpoint has an http:// URL.
C19_TLSMakesAllHttps ==
    Extracted =>
        LET ingress == call.ingress
            eps == ret.out.endpoints
            prs == Emitting(ingress)
        IN /\ Len(eps) = Len(prs)
           /\ \A i \in 1..Len(eps) :
                eps[i].URL = (IF ingress.Spec.TLS # <<>> THEN "https://" ELSE "http://")
                                \o prs[i].host

\* the TLS section names a.com only, and the endpoint of host b.com is https
C19_Witness ==
    /\ Extracted
    /\ call.ingress.Spec.TLS = <<[Hosts |-> <<"a.com">>]>>
    /\ \E i \in 1..Len(ret.out.endpoints) : ret.out.endpoints[i].URL = "https://b.com"

----------------------------------------------------------------------------
(* C20 *)

\* C20 as stated: the scheme of an emitted endpoint's url is https if the
\* declaration lists TLS for that endpoint's host, and http otherwise.
C20_HttpsIffHostListed ==
    Extracted =>
        /\ Len(ret.out.endpoints) = Len(Emitting(call.ingress))
        /\ \A i \in 1..Len(ret.out.endpoints) :
              Scheme(ret.out.endpoints[i].URL) =
                 IF HostListed(call.ingress, Emitting(call.ingress)[i].host)
                   THEN "https" ELSE "http"

\* C20 amended: the scheme of an emitted endpoint's url is https if and only if the
\* declaration's TLS section is non-empty, and http otherwise; so it is https for
\* every host the declaration lists TLS for, and also for a host it does not list
\* when it lists another.
C20_SchemeFollowsTLSSection ==
    Extracted =>
        /\ Len(ret.out.endpoints) = Len(Emitting(call.ingress))
        /\ \A i \in 1..Len(ret.out.endpoints) :
              LET scheme == Scheme(ret.out.endpoints[i].URL)
              IN /\ scheme \in {"http", "https"}
                 /\ scheme = "https" <=> Len(call.ingress.Spec.TLS) > 0
                 /\ HostListed(call.ingress, Emitting(call.ingress)[i].host) =>
                       scheme = "https"

\* TLS is listed for a.com only; the endpoints of a.com and of b.com are both https
C20_Witness ==
    /\ Extracted
    /\ Len(ret.out.endpoints) = 2
    /\ Emitting(call.ingress)[1].host = "a.com"
    /\ Emitting(call.ingress)[2].host = "b.com"
    /\ HostListed(call.ingress, "a.com")
    /\ ~HostListed(call.ingress, "b.com")
    /\ Scheme(ret.out.endpoints[1].URL) = "https"
    /\ Scheme(ret.out.endpoints[2].URL) = "https"

----------------------------------------------------------------------------
(* C21 *)

\* the endpoint that the path rule pr of the declaration stands for, health path
\* apart
EmittedFor(ep, ingress, pr) ==
    /\ ep.Namespace = ingress.Namespace
    /\ ep.IngressName = ingress.Name
    /\ ep.ServiceName = pr.path.Backend.Service[1].Name
    /\ ep.URL \in {"http://" \o pr.host, "https://" \o pr.host}
    /\ ep.Labels = ingress.Labels
    /\ ep.Annotations = ingress.Annotations

\* C21: a call of the extractor returns, in order, exactly one endpoint for every
\* path rule that has a bound service under a rule with a non-empty host and an
\* HTTP section, and nothing for any other rule, whatever the other rules of the
\* declaration are.
C21_OneEndpointPerBoundPath ==
    call.fn = "extractEndpointsFromIngress" =>
        /\ ~ret.out.panicked
        /\ Len(ret.out.endpoints) = Len(Emitting(call.ingress))
        /\ \A i \in 1..Len(ret.out.endpoints) :
              EmittedFor(ret.out.endpoints[i], call.ingress, Emitting(call.ingress)[i])

----------------------------------------------------------------------------
(* C22 *)

\* the two endpoints agree on namespace, ingress name, url and path
SameKeyFields(a, b) ==
    /\ a.Namespace = b.Namespace
    /\ a.IngressName = b.IngressName
    /\ a.URL = b.URL
    /\ a.Path = b.Path

\* C22: the key of an endpoint is namespace, "/", ingress name, "/", url, path put
\* together, so "default/ing1/http://a.com/health" for those four values; two
\* endpoints that agree on the four fields have the same key, whatever their
\* service names, labels and annotations.
C22_EndpointKey ==
    call.fn = "endpointKey" =>
        /\ ret.keyA = call.a.Namespace \o "/" \o call.a.IngressName \o "/"
                         \o call.a.URL \o call.a.Path
        /\ ret.keyB = call.b.Namespace \o "/" \o call.b.IngressName \o "/"
                         \o call.b.URL \o call.b.Path
        /\ (/\ call.a.Namespace = "default"
            /\ call.a.IngressName = "ing1"
            /\ call.a.URL = "http://a.com"
            /\ call.a.Path = "/health") => ret.keyA = "default/ing1/http://a.com/health"
        /\ SameKeyFields(call.a, call.b) => ret.keyA = ret.keyB

\* two endpoints that differ in service name, labels and annotations only have
\* been given the one key
C22_Witness ==
    /\ call.fn = "endpointKey"
    /\ SameKeyFields(call.a, call.b)
    /\ call.a.ServiceName # call.b.ServiceName
    /\ call.a.Labels # call.b.Labels
    /\ call.a.Annotations # call.b.Annotations
    /\ ret.keyA = "default/ing1/http://a.com/health"
    /\ ret.keyB = ret.keyA

----------------------------------------------------------------------------
(* C23 *)

\* the declarations of the cluster whose namespace passes the client's filter
Passing(cluster) ==
    SelectSeq(cluster, LAMBDA ingress : shouldProcessNamespace(client, ingress.Namespace))

\* the endpoints extracted from each declaration, one list after the other
RECURSIVE ConcatExtracted(_)
ConcatExtracted(ingresses) ==
    IF ingresses = <<>> THEN <<>>
    ELSE extractEndpointsFromIngress(Head(ingresses)).endpoints
            \o ConcatExtracted(Tail(ingresses))

\* C23: a discovery call fails exactly when the cluster-wide listing fails;
\* otherwise it extracts from the listed declarations whose namespace passes the
\* filter, and from no other, and returns the concatenation of what it extracted:
\* no returned endpoint is of a filtered-out namespace.
C23_DiscoveryConcatenatesPassing ==
    call.fn = "DiscoverIngressEndpoints" =>
        LET passing == Passing(call.cluster)
        IN /\ ret.out.err <=> call.listFails
           /\ ret.out.err => ret.out.endpoints = <<>>
           /\ ~ret.out.err =>
                 /\ ret.out.panicked <=>
                       \E i \in 1..Len(passing) :
                           extractEndpointsFromIngress(passing[i]).panicked
                 /\ ~ret.out.panicked =>
                       /\ ret.out.endpoints = ConcatExtracted(passing)
                       /\ \A i \in 1..Len(ret.out.endpoints) :
                             shouldProcessNamespace(client,
                                                    ret.out.endpoints[i].Namespace)

\* kube-system is denied: of a cluster holding ing4 (kube-system) and ing1
\* (default), the call returns the two endpoints of ing1 and never touches ing4
C23_Witness ==
    /\ call.fn = "DiscoverIngressEndpoints"
    /\ client = [namespaceMode |-> "deny", namespaces |-> <<"kube-system">>]
    /\ call.cluster = <<ing4, ing1>>
    /\ ~ret.out.err
    /\ ~ret.out.panicked
    /\ ret.out.endpoints = <<epSvc, epSvc2>>

----------------------------------------------------------------------------
(* C27 *)

\* the request of check t has been sent and has not ended
InFlight(t) == checks[t].pc = "inFlight"

\* C27: the step in which a cycle launches its checks takes the loop back to its
\* select with every new check not yet begun and every older check where it was;
\* at the select a ready tick starts the next cycle whatever the checks of earlier
\* cycles are doing.
C27_CycleDoesNotWait ==
    /\ [][Len(checks') # Len(checks) =>
            /\ loopPc' = "select"
            /\ \A t \in CheckIds : checks'[t] = checks[t]
            /\ \A t \in (Len(checks) + 1)..Len(checks') :
                  checks'[t].pc = "lockEndpoints" /\ checks'[t].requests = 0]_vars
    /\ []((loopPc = "select" /\ tickReady /\ cycles < MaxCycles) => ENABLED SelectTick)

\* the second cycle has launched a check of the key whose check of the first cycle
\* is still in flight, and both requests are now in flight
C27_Witness ==
    /\ Len(checks) = 2
    /\ checks[1].cycle = 1
    /\ checks[2].cycle = 2
    /\ keyOf(1) = keyOf(2)
    /\ InFlight(1)
    /\ InFlight(2)

----------------------------------------------------------------------------
(* C28 *)

\* the step in which check t performs its status write
StatusWriteOf(t) == checks[t].pc = "storeStatus" /\ checks'[t].pc = "record"

\* C28: a status write of a check sets status[key] to that check's own result,
\* whatever was there and whichever cycle the check is of, and status[key] changes
\* in no other step: after any number of overlapping checks it is the result of
\* the write performed last.
C28_LastWriteWins ==
    /\ [][\A t \in CheckIds :
            StatusWriteOf(t) =>
                /\ keyOf(t) \in DOMAIN endpointStatus'
                /\ endpointStatus'[keyOf(t)] = OutcomeUp(checks[t])]_vars
    /\ [][\A k \in DOMAIN endpointStatus' :
            (k \notin DOMAIN endpointStatus \/ endpointStatus'[k] # endpointStatus[k]) =>
                \E t \in CheckIds : keyOf(t) = k /\ StatusWriteOf(t)]_vars

\* two checks of one key, of the first and of the second cycle, have both finished
\* with different results, and the status is that of the first cycle's check
C28_Witness ==
    /\ Len(checks) = 2
    /\ checks[1].cycle = 1
    /\ checks[2].cycle = 2
    /\ keyOf(1) = keyOf(2)
    /\ AllReturned
    /\ Len(checks[1].statusWrites) = 1
    /\ Len(checks[2].statusWrites) = 1
    /\ OutcomeUp(checks[1]) # OutcomeUp(checks[2])
    /\ endpointStatus[keyOf(1)] = OutcomeUp(checks[1])

----------------------------------------------------------------------------
(* C29 *)

\* the checks launched in the step, in launch order
NewChecks == [i \in 1..(Len(checks') - Len(checks)) |-> checks'[Len(checks) + i]]

\* C29: the step in which discovery returns eps launches Len(eps) new checks, the
\* i-th for eps[i] and all of the current cycle, whether or not eps repeats an
\* endpoint and whatever checks of that endpoint are still running; no other step
\* launches a check.
C29_OneCheckPerElement ==
    [][ /\ (loopPc = "discovering" /\ loopPc' = "select" /\ ~discoveryErr') =>
              /\ Len(checks') = Len(checks) + Len(discovered')
              /\ \A i \in 1..Len(discovered') :
                    /\ NewChecks[i].ep = discovered'[i]
                    /\ NewChecks[i].cycle = cycles
                    /\ NewChecks[i].pc = "lockEndpoints"
        /\ Len(checks') # Len(checks) =>
              (loopPc = "discovering" /\ loopPc' = "select" /\ ~discoveryErr')
      ]_vars

\* discovery has returned the same endpoint twice, and the cycle's two checks of
\* it are both in flight
C29_Witness ==
    /\ Len(discovered) = 2
    /\ discovered[1] = discovered[2]
    /\ Len(checks) = 2
    /\ checks[1].cycle = checks[2].cycle
    /\ checks[1].ep = checks[2].ep
    /\ InFlight(1)
    /\ InFlight(2)

----------------------------------------------------------------------------
(* C30 *)

\* check t is between its two critical sections and is the first to check its key
FirstCheckBetweenSections(t) ==
    /\ checks[t].pc \in {"request", "inFlight", "lockStatus"}
    /\ keyOf(t) \in DOMAIN endpoints
    /\ keyOf(t) \notin DOMAIN endpointStatus

\* C30: a run of the callback emits nothing for a key that is in the endpoints map
\* and not in the status map; every sample it has emitted is for a key of the
\* status map, with value 1 if status[key] is up and 0 if down as the maps stand
\* while it holds the mutex, and the maps do not change while it holds it.
C30_CallbackSeesConsistentMaps ==
    /\ [](cbPc = "observed" =>
            /\ mu = CallbackTask
            /\ \A t \in CheckIds :
                  FirstCheckBetweenSections(t) => SamplesFor(checks[t].ep) = {}
            /\ \A s \in samples :
                  \E k \in DOMAIN endpointStatus :
                      /\ k \in DOMAIN endpoints
                      /\ TaggedFor(s.attrs, endpoints[k])
                      /\ s.value = (IF endpointStatus[k] THEN 1 ELSE 0))
    /\ [][cbPc = "observed" =>
            (endpoints' = endpoints /\ endpointStatus' = endpointStatus)]_vars

\* the callback runs while the first check of one key waits for the mutex to write
\* its status; the callback has emitted a down sample for another key and none for
\* this one
C30_Witness ==
    /\ cbPc = "observed"
    /\ \E t \in CheckIds :
          /\ FirstCheckBetweenSections(t)
          /\ checks[t].pc = "lockStatus"
          /\ SamplesFor(checks[t].ep) = {}
    /\ \E s \in samples : s.value = 0

----------------------------------------------------------------------------
(* Properties of config.LoadConfig *)

LoadConfigCalled == call.fn = "LoadConfig"

\* the configuration a successful call returned
LoadedConfig == ret.out.config[1]

FileParsed == call.file.kind = "parsed"

\* a non-negative int64 in six limbs, where a product by 10^9 cannot wrap
Widen(x) == x \o <<0, 0>>

\* the number of nanoseconds in n seconds, as a mathematical integer
Nanoseconds(n) == mulPow10(Widen(n), 9)

\* the duration d is exactly n seconds
IsSeconds(d, n) == d[4] < Limb \div 2 /\ Widen(d) = Nanoseconds(n)

\* an interval variable that is set and valid: a positive integer
ValidInterval(v) == v # <<>> /\ Atoi(v).ok /\ Positive(Atoi(v).value)

\* an interval variable that is set and invalid: not a number, or not positive
InvalidInterval(v) == v # <<>> /\ ~ValidInterval(v)

\* a status-code list that is set and has no piece that is an integer
InvalidCodes(v) ==
    /\ v # <<>>
    /\ \A i \in 1..Len(Split(v)) : ~Atoi(TrimSpace(Split(v)[i])).ok

ValidCodes(v) == v # <<>> /\ ~InvalidCodes(v)

AllowOrDeny == {<<"a", "l", "l", "o", "w">>, <<"d", "e", "n", "y">>}

ValidMode(v) == v # <<>> /\ ToLower(v) \in AllowOrDeny

InvalidMode(v) == v # <<>> /\ ToLower(v) \notin AllowOrDeny

\* the interval setting follows environment, then file, then documented default
IntervalPrecedence(got, envValue, fileValue, defaultSeconds) ==
    IF ValidInterval(envValue) THEN IsSeconds(got, Atoi(envValue).value)
    ELSE IF FileParsed /\ Positive(fileValue) THEN IsSeconds(got, fileValue)
    ELSE IsSeconds(got, Int64(defaultSeconds))

\* a setting whose values are taken as they are
ValuePrecedence(got, envSet, envValue, fileSet, fileValue, defaultValue) ==
    IF envSet THEN got = envValue
    ELSE IF FileParsed /\ fileSet THEN got = fileValue
    ELSE got = defaultValue

\* C24: every setting of the returned configuration is the environment variable's
\* value when that is set and valid, else the file's value when the file gives one,
\* else the documented default (30s, 10s, signoz-otel-collector:4317,
\* {401, 403, 404}, allow, no namespaces).
C24_EnvThenFileThenDefault ==
    (LoadConfigCalled /\ ~ret.out.err) =>
        LET cfg == LoadedConfig
            env == call.env
            cf == call.file.parsed
        IN /\ IntervalPrecedence(cfg.MonitoringInterval, env.MONITOR_INTERVAL_SECONDS,
                                 cf.MonitoringInterval, 30)
           /\ IntervalPrecedence(cfg.MetricsInterval, env.METRICS_INTERVAL_SECONDS,
                                 cf.MetricsInterval, 10)
           /\ ValuePrecedence(cfg.OtelCollectorURL, env.OTEL_COLLECTOR_URL # <<>>,
                              env.OTEL_COLLECTOR_URL, cf.OtelCollectorURL # <<>>,
                              cf.OtelCollectorURL,
                              <<"s", "i", "g", "n", "o", "z", "-", "o", "t", "e", "l",
                                "-", "c", "o", "l", "l", "e", "c", "t", "o", "r", ":",
                                "4", "3", "1", "7">>)
           /\ ValuePrecedence(cfg.SuccessStatusCodes,
                              ValidCodes(env.SUCCESS_STATUS_CODES),
                              parseCodes(Split(env.SUCCESS_STATUS_CODES)),
                              cf.SuccessStatusCodes # <<>>, cf.SuccessStatusCodes,
                              <<Int64(401), Int64(403), Int64(404)>>)
           /\ ValuePrecedence(cfg.NamespaceMode, ValidMode(env.NAMESPACE_MODE),
                              ToLower(env.NAMESPACE_MODE), cf.NamespaceMode # <<>>,
                              cf.NamespaceMode, <<"a", "l", "l", "o", "w">>)
           /\ ValuePrecedence(cfg.Namespaces, env.NAMESPACES # <<>>,
                              [i \in 1..Len(Split(env.NAMESPACES)) |->
                                  TrimSpace(Split(env.NAMESPACES)[i])],
                              cf.Namespaces # <<>>, cf.Namespaces, <<>>)

\* the configuration as it was before the environment step
BeforeEnvironment ==
    IF FileParsed THEN applyFile(DefaultConfig, call.file.parsed) ELSE DefaultConfig

\* C25: an invalid environment value is ignored: it causes no error (LoadConfig
\* fails only on a file it cannot parse), and the setting keeps the value it had
\* before the environment step.
C25_InvalidEnvIgnored ==
    LoadConfigCalled =>
        /\ ret.out.err <=> call.file.kind = "unparsable"
        /\ ~ret.out.err =>
              LET cfg == LoadedConfig
                  env == call.env
                  before == BeforeEnvironment
              IN /\ InvalidInterval(env.MONITOR_INTERVAL_SECONDS)
                       => cfg.MonitoringInterval = before.MonitoringInterval
                 /\ InvalidInterval(env.METRICS_INTERVAL_SECONDS)
                       => cfg.MetricsInterval = before.MetricsInterval
                 /\ InvalidCodes(env.SUCCESS_STATUS_CODES)
                       => cfg.SuccessStatusCodes = before.SuccessStatusCodes
                 /\ InvalidMode(env.NAMESPACE_MODE)
                       => cfg.NamespaceMode = before.NamespaceMode

\* a call with a negative interval, a zero interval, an unparsable code list and an
\* unknown mode in the environment returned the values of the file
C25_Witness ==
    /\ LoadConfigCalled
    /\ FileParsed
    /\ ~ret.out.err
    /\ call.env.MONITOR_INTERVAL_SECONDS = <<"-", "5">>
    /\ call.env.METRICS_INTERVAL_SECONDS = <<"0">>
    /\ InvalidCodes(call.env.SUCCESS_STATUS_CODES)
    /\ InvalidMode(call.env.NAMESPACE_MODE)
    /\ IsSeconds(LoadedConfig.MonitoringInterval, Int64(45))
    /\ IsSeconds(LoadedConfig.MetricsInterval, Int64(15))
    /\ LoadedConfig.SuccessStatusCodes = <<Int64(200), Int64(418)>>
    /\ LoadedConfig.NamespaceMode = <<"b", "l", "o", "c", "k">>

\* C26: a config file that cannot be read is not an error, and the call returns the
\* defaults overridden by the environment; a file that is read but cannot be parsed
\* makes the call return an error and no configuration.
C26_UnreadableFileIsNoError ==
    LoadConfigCalled =>
        /\ call.file.kind = "unreadable"
              => /\ ~ret.out.err
                 /\ ret.out.config = <<applyEnv(DefaultConfig, call.env)>>
        /\ call.file.kind = "unparsable"
              => /\ ret.out.err
                 /\ ret.out.config = <<>>

\* a call that found an unparsable file returned an error although the environment
\* gave valid values
C26_Witness ==
    /\ LoadConfigCalled
    /\ call.file.kind = "unparsable"
    /\ ValidInterval(call.env.MONITOR_INTERVAL_SECONDS)
    /\ ValidMode(call.env.NAMESPACE_MODE)
    /\ ret.out.err
    /\ ret.out.config = <<>>

----------------------------------------------------------------------------
(* C31 *)

\* check t has started: it has made the endpoints write that checkEndpoint begins
\* with
HasStarted(t) == checks[t].pc \notin {"lockEndpoints", "storeEndpoint"}

\* check t has made its status write
HasWrittenStatus(t) == Len(checks[t].statusWrites) >= 1

\* the step in which check t performs its endpoints write
EndpointWriteOf(t) == checks[t].pc = "storeEndpoint" /\ checks'[t].pc = "request"

\* the distinct keys among the checks that have started
StartedKeys == { keyOf(t) : t \in { u \in CheckIds : HasStarted(u) } }

\* the distinct keys among the checks that have written a status
StatusKeys == { keyOf(t) : t \in { u \in CheckIds : HasWrittenStatus(u) } }

\* C31: endpoints that agree on namespace, ingress, url and path share one entry
\* in each map, whatever their service names; endpoints[key] is the endpoint of
\* the check that wrote last; and the endpoints map has one entry per distinct key
\* among the checks that have started (the status map one per distinct key among
\* the checks that have written a status).
C31_OneEntryPerKey ==
    /\ [](/\ \A t, u \in CheckIds :
               SameKeyFields(checks[t].ep, checks[u].ep) => keyOf(t) = keyOf(u)
          /\ DOMAIN endpoints = StartedKeys
          /\ Cardinality(DOMAIN endpoints) = Cardinality(StartedKeys)
          /\ DOMAIN endpointStatus = StatusKeys)
    /\ [][\A t \in CheckIds :
            EndpointWriteOf(t) =>
                /\ keyOf(t) \in DOMAIN endpoints'
                /\ endpoints'[keyOf(t)] = checks[t].ep]_vars
    /\ [][\A k \in DOMAIN endpoints' :
            (k \notin DOMAIN endpoints \/ endpoints'[k] # endpoints[k]) =>
                \E t \in CheckIds : keyOf(t) = k /\ EndpointWriteOf(t)]_vars

\* the checks of svc and of svc2, routed by one ingress under one host and path,
\* have both started; the maps have one entry each, and the endpoints entry is
\* that of svc, whose check was launched first and wrote last
C31_Witness ==
    /\ Len(checks) = 2
    /\ checks[1].ep = epSvc
    /\ checks[2].ep = epSvc2
    /\ HasStarted(1)
    /\ HasStarted(2)
    /\ HasWrittenStatus(1)
    /\ HasWrittenStatus(2)
    /\ Cardinality(DOMAIN endpoints) = 1
    /\ Cardinality(DOMAIN endpointStatus) = 1
    /\ endpoints[keyOf(1)] = epSvc

----------------------------------------------------------------------------
(* C32 *)

LoopReturned == loopPc = "returned"

\* the loop waits in its select with a tick to receive, n cycles made so far
TickPending(n) == loopPc = "select" /\ tickReady /\ cycles = n

\* C32: once Start has been called and the context is cancelled, the loop goroutine
\* eventually returns; it returns in no other case, it is never without a next step
\* while the context is live, every tick it receives starts a cycle, and a tick
\* that is ready while it waits is eventually received unless the loop returns.
C32_LoopRunsUntilCancelled ==
    /\ (started /\ ctxDone) ~> LoopReturned
    /\ [](LoopReturned => ctxDone)
    /\ []((started /\ ~ctxDone /\ cycles < MaxCycles) =>
            ENABLED (LoopBegin \/ TickerFire \/ SelectTick \/ DiscoverFails
                        \/ DiscoverReturns))
    /\ [][ticksConsumed' # ticksConsumed =>
            /\ cycles' = cycles + 1
            /\ loopPc' \in {"discovering", "discoveringCancelled"}]_vars
    /\ \A n \in 0..(MaxCycles - 1) : TickPending(n) ~> (cycles > n \/ LoopReturned)

\* the loop has returned after the cancellation, having made a cycle on a tick
C32_Witness ==
    /\ LoopReturned
    /\ ctxDone
    /\ ticksConsumed = 1
    /\ cycles = 2
    /\ ~tickerActive

----------------------------------------------------------------------------
(* C33 *)

\* the positions of the options of one kind in the list NewMonitor was given
PositionsOf(kind) == { i \in 1..Len(call.options) : call.options[i].option = kind }

\* the value the last option of that kind holds, or else the default
Configured(kind, default) ==
    IF PositionsOf(kind) = {} THEN default
    ELSE call.options[CHOOSE i \in PositionsOf(kind) :
                          \A j \in PositionsOf(kind) : j <= i].value

\* C33: the Monitor that NewMonitor returns has check interval 30s, timeout 10s and
\* extra success codes 401, 403, 404, except that a field named by an option has
\* that option's value (an option changes no other field); and no step of the
\* running program (Start, cycles, checks, callback) changes any of the three.
C33_ConfigurationSetOnce ==
    /\ [](call.fn = "NewMonitor" =>
            /\ checkInterval = Configured("WithCheckInterval", 30)
            /\ timeout = Configured("WithTimeout", 10)
            /\ successStatusCodes =
                  Configured("WithSuccessStatusCodes", <<401, 403, 404>>))
    /\ [][/\ checkInterval' = checkInterval
          /\ timeout' = timeout
          /\ successStatusCodes' = successStatusCodes]_vars

\* a Monitor built with a timeout and a check interval option has run two checks to
\* the end, its loop has returned and its callback is observing: the interval and
\* the timeout are the options', the codes the default
C33_Witness ==
    /\ call.fn = "NewMonitor"
    /\ Len(call.options) = 2
    /\ call.options[1].option = "WithTimeout"
    /\ call.options[2].option = "WithCheckInterval"
    /\ checkInterval = 60
    /\ timeout = 5
    /\ successStatusCodes = <<401, 403, 404>>
    /\ Len(checks) = 2
    /\ AllReturned
    /\ loopPc = "returned"
    /\ cbPc = "observed"

----------------------------------------------------------------------------
(* C34 *)

\* check t waits in m.mu.Lock()
WaitsForLock(t) == checks[t].pc \in {"lockEndpoints", "lockStatus"}

\* check t is inside one of its two critical sections
HoldsLock(t) == checks[t].pc \in {"storeEndpoint", "storeStatus"}

\* C34: a check holds the mutex only between a Lock and the map write that follows
\* it, never while it builds or performs its request or records metrics; the step
\* of a check that holds the mutex writes one map and releases it, the callback
\* changes no map and releases it on return; so the mutex is always released
\* again, and, however long other checks' requests hang, a waiting check gets the
\* mutex and a task that waits always has the holder or itself able to step.
C34_LockNotHeldAcrossRequest ==
    /\ [](\A t \in CheckIds : mu = t <=> HoldsLock(t))
    /\ [][\A t \in CheckIds :
            (mu = t /\ checks'[t] # checks[t]) =>
                /\ mu' = Free
                /\ endpoints' = endpoints \/ endpointStatus' = endpointStatus]_vars
    /\ [][(mu = CallbackTask \/ mu' = CallbackTask) =>
             (endpoints' = endpoints /\ endpointStatus' = endpointStatus)]_vars
    /\ [](((\E t \in CheckIds : WaitsForLock(t)) \/ mu # Free) =>
            ENABLED ((\E t \in CheckIds : \/ LockEndpoints(t) \/ LockStatus(t)
                                          \/ StoreEndpoint(t) \/ StoreStatus(t))
                        \/ CallbackReturn))
    /\ (mu # Free) ~> (mu = Free)
    /\ \A t \in 1..MaxChecks :
          (Launched(t) /\ WaitsForLock(t)) ~> (Launched(t) /\ HoldsLock(t))

\* one check's request is in flight, the mutex is free, and the other check, which
\* was launched with it, has completed
C34_Witness ==
    /\ Len(checks) = 2
    /\ checks[1].cycle = checks[2].cycle
    /\ checks[1].pc = "inFlight"
    /\ mu = Free
    /\ Completed(2)
    /\ cbRegistered

----------------------------------------------------------------------------
(* C35 *)

\* the request of check t could not be constructed
BuildFailed(t) == checks[t].err = "build"

\* the step in which check t tries to construct its request
BuildStepOf(t) == checks[t].pc = "request" /\ checks'[t] # checks[t]

\* C35: a check whose request cannot be constructed returns from the attempt
\* with its endpoints entry stored, no request sent, no status written and no count
\* or duration observation recorded, and the attempt leaves the status map as it
\* was; every check of an endpoint with such a url and path ends this way.
C35_UnbuildableRequestWritesNoStatus ==
    /\ [](\A t \in CheckIds :
            /\ BuildFailed(t) =>
                  /\ Returned(t)
                  /\ keyOf(t) \in DOMAIN endpoints
                  /\ checks[t].requests = 0
                  /\ checks[t].statusWrites = <<>>
                  /\ checks[t].counterObs = <<>>
                  /\ checks[t].histogramObs = <<>>
            /\ (Returned(t) /\ ~requestBuilds(checks[t].ep)) => BuildFailed(t))
    /\ [][\A t \in CheckIds :
            (BuildStepOf(t) /\ ~requestBuilds(checks[t].ep)) =>
                /\ BuildFailed(t)'
                /\ endpointStatus' = endpointStatus
                /\ endpoints' = endpoints]_vars

\* the check of the endpoint with the invalid percent escape has returned: its
\* endpoints entry is there, its key has no status, while the check launched with
\* it has completed and written the status of its own key
C35_Witness ==
    /\ Len(checks) = 2
    /\ checks[2].ep = epBad
    /\ BuildFailed(2)
    /\ endpoints[keyOf(2)] = epBad
    /\ keyOf(2) \notin DOMAIN endpointStatus
    /\ Completed(1)
    /\ keyOf(1) \in DOMAIN endpointStatus

----------------------------------------------------------------------------
(* C36 *)

\* the loop goroutine is inside a call of DiscoverIngressEndpoints
Discovering == loopPc \in {"discovering", "discoveringCancelled"}

\* a call of DiscoverIngressEndpoints begins in this step
DiscoveryBegins == cycles' # cycles

\* a call of DiscoverIngressEndpoints ends in this step
DiscoveryEnds == Discovering /\ ~Discovering'

\* C36: a discovery call begins only in a step of the loop goroutine that is not
\* inside a discovery call, and its result is delivered only by the step that ends
\* that call; so the calls are one after another.  A tick that arrives during a
\* discovery call is buffered and starts nothing until the loop is back in its
\* select.
C36_DiscoveryIsSequential ==
    /\ [](Discovering => started)
    /\ [][DiscoveryBegins =>
            /\ ~Discovering
            /\ loopPc \in {"begin", "select"}
            /\ Discovering'
            /\ cycles' = cycles + 1]_vars
    /\ [][(\/ discovered' # discovered
           \/ discoveryErr' # discoveryErr
           \/ Len(checks') # Len(checks)) => DiscoveryEnds]_vars
    /\ [][(Discovering /\ ~tickReady /\ tickReady') =>
            (Discovering' /\ cycles' = cycles /\ ticksConsumed' = ticksConsumed)]_vars
    /\ [][(Discovering /\ tickReady) => (tickReady' /\ ticksConsumed' = ticksConsumed)]_vars

\* the second cycle's discovery call, begun on the first tick, is running and the
\* next tick has already arrived
C36_Witness ==
    /\ loopPc = "discovering"
    /\ cycles = 2
    /\ ticksConsumed = 1
    /\ tickReady

----------------------------------------------------------------------------
(* C37 *)

\* C37: both intervals of every configuration that LoadConfig returns are strictly
\* positive, whatever the file and the environment hold.
C37_IntervalsArePositive ==
    (LoadConfigCalled /\ ~ret.out.err) =>
        /\ Positive(LoadedConfig.MonitoringInterval)
        /\ Positive(LoadedConfig.MetricsInterval)

----------------------------------------------------------------------------
(* C38 *)

\* C38: the namespace mode of every configuration that LoadConfig returns is
\* "allow" or "deny", whatever the file and the environment hold.
C38_ModeIsAllowOrDeny ==
    (LoadConfigCalled /\ ~ret.out.err) => LoadedConfig.NamespaceMode \in AllowOrDeny

====
